---- MODULE Spec2Model ----
(***************************************************************************)
(* The process orchestrator of the dashboard: App::spawn_claude_process,   *)
(* the reader threads of data/process_runner.rs, the mpsc channel they     *)
(* feed, App::poll_process_output (run on every tick of run_app) and       *)
(* App::kill_selected_process.                                             *)
(*                                                                         *)
(* A child process is modelled by what the operating system lets it do:    *)
(* it writes the lines of its stdout and stderr into two pipes of bounded  *)
(* capacity, blocks on a full pipe, and exits once it has written          *)
(* everything.  The text of a line is abstracted to its sequence number    *)
(* within its stream (the n-th line a child writes on a stream is n), so   *)
(* that order, loss and duplication of lines are visible.                  *)
(***************************************************************************)
EXTENDS Integers, Sequences, FiniteSets, TLC

\* ------------------------------------------------------------------ bounds
\* Number of spawn attempts (ids handed out by next_process_id).
MaxProcs == 2
\* Most lines a child writes on one stream.
MaxLines == 3
\* Most lines all children together write when several are spawned (Spec).
MaxTotalLines == 2
\* Capacity of an OS pipe, in lines.
PipeCap == 1
\* Most messages in flight on the mpsc channel (the real channel is unbounded).
MaxQueue == 2
\* Messages a foreign holder of process_tx may send (HandlerSpec only).
MaxInject == 1

\* model/process.rs: MAX_PROCESS_OUTPUT_LINES = 10_000, scaled down so that a
\* child of MaxLines lines can write more than the cap.
MAX_PROCESS_OUTPUT_LINES == 2

Ids == 1..MaxProcs
Streams == {"Stdout", "Stderr"}

VARIABLES
    processes,        \* App.processes: Vec<SpawnedProcess>
    process_children, \* App.process_children: Vec<(usize, Child)>, as the ids
    process_index,    \* App.process_index (0-based)
    process_rx,       \* App.process_tx / process_rx are Some
    next_process_id,  \* App.next_process_id
    last_error,       \* App.last_error
    chan,             \* messages in flight on the mpsc channel
    os_state,         \* per id: "none", "running" or "exited" (the OS process)
    os_success,       \* per id: whether the exit status is success
    plan,             \* per id and stream: lines the child will write
    written,          \* per id and stream: lines the child has written
    pipe,             \* per id and stream: lines in the pipe, oldest first
    reader,           \* per id and stream: "none", "running", "eof", "failed"
    exit_reported,    \* per id: an Exited message has been sent
    kill_sent,        \* ids whose child was sent a kill through Child::kill
    injected          \* messages sent by a foreign holder of process_tx

\* The change classifier of watcher/mod.rs.
VARIABLES
    path_str,         \* the path of a debounced event, as text
    change            \* what classify_change returned for it

\* The state of the process orchestrator.
processVars == <<processes, process_children, process_index, process_rx,
                 next_process_id, last_error, chan, os_state, os_success, plan,
                 written, pipe, reader, exit_reported, kill_sent, injected>>

classifyVars == <<path_str, change>>

\* watcher::start_watcher, the debouncer it creates and its callback.
VARIABLES
    tabs_config,      \* per feature: its enable flag
    dir_exists,       \* per directory: whether it exists at startup
    watch_err,        \* directories on which watcher.watch returns Err
    debouncer_err,    \* whether new_debouncer returns Err
    watcher,          \* "none", then "running" (Ok(debouncer)) or "failed" (Err)
    watch_calls,      \* directories watcher.watch was called on
    watched,          \* directories whose watch was registered
    now,              \* the time, in ticks of the debouncer thread
    pending,          \* the debouncer's map: per path, NoEntry or [insert, update]
    emitted,          \* the debounced events and errors handed to the callback
    event_tx,         \* the AppEvent::FileChanged messages sent to the main loop
    raw               \* per path: the raw events so far, [count, first, last]

watchVars == <<tabs_config, dir_exists, watch_err, debouncer_err, watcher,
               watch_calls, watched, now, pending, emitted, event_tx, raw>>

\* The Sessions tab of App: the transcript of the selected session.
VARIABLES
    sessions,            \* App.sessions, as the session ids
    session_list_index,  \* App.session_list_index
    loaded_session_id,   \* App.loaded_session_id ("None" or a session id)
    transcript_reader,   \* App.transcript_reader: [tail_lines, items, last_len]
    transcript_items,    \* App.transcript_items
    transcript_scroll,   \* App.transcript_scroll
    follow_mode,         \* App.follow_mode
    subagents,           \* App.subagents
    subagent_index,      \* App.subagent_index
    subagent_transcript, \* App.subagent_transcript
    subagent_reader,     \* App.subagent_reader
    viewing_subagent,    \* App.viewing_subagent
    tail_lines,          \* project_config.display.tail_lines: <<>> or <<n>>
    files,               \* per session: the lines of its .jsonl file, or Missing
    tail_unit,           \* what the reader counts its tail budget in
    read_result,         \* what the last read_new returned
    unchanged_reads      \* reads of the file since it last changed

sessionVars == <<sessions, session_list_index, loaded_session_id,
                 transcript_reader, transcript_items, transcript_scroll,
                 follow_mode, subagents, subagent_index, subagent_transcript,
                 subagent_reader, viewing_subagent, tail_lines, files, tail_unit,
                 read_result, unchanged_reads>>

\* The file-backed lists of the other tabs.  A list is modelled by a
\* version number, 0 for the empty list.
VARIABLES
    index,            \* what sessions::load_sessions returns: ids, or IndexErr
    disk,             \* per list: what its load returns, LoadErr or a version
    teams,            \* App.teams
    tasks,            \* App.tasks
    inbox_messages,   \* App.inbox_messages
    agent_statuses,   \* App.agent_statuses
    todo_files,       \* App.todo_files
    plan_files,       \* App.plan_files
    git_status,       \* App.git_status
    subagent_file     \* the lines of the viewed subagent's file, or Missing

featureVars == <<index, disk, teams, tasks, inbox_messages, agent_statuses,
                 todo_files, plan_files, git_status, subagent_file>>

\* run_app of main.rs: the loop that owns the App.  The time is in units of
\* which a tick is TICK_RATE_MS.
VARIABLES
    pc,               \* where run_app is: "draw", "input", "drain", "tick",
                      \* "procs", and "done" once it has returned
    dirty,            \* App.dirty
    should_quit,      \* App.should_quit
    time,             \* Instant::now()
    last_tick,        \* run_app's last_tick
    event_rx,         \* the AppEvents queued on rx, oldest first
    poll_enabled,     \* per tracker: the tick's conditions other than the time
    can_fetch,        \* per tracker: its load gets as far as the request
    last_poll,        \* App.gh_last_poll, gh_issues_last_poll, jira_last_poll
                      \* and linear_last_poll
    drew,             \* whether this iteration called terminal.draw
    mutated,          \* a key press or a message was applied since the last draw
    waited,           \* how long the latest ct_event::poll took
    sent,             \* how many AppEvents were sent so far
    received,         \* the number of the latest AppEvent taken from rx
    queued,           \* how many AppEvents were sent when the drain began
    last_attempt,     \* per tracker: when the tick last sent it a request
    polled            \* the trackers the latest tick sent a request to

loopVars == <<pc, dirty, should_quit, time, last_tick, event_rx, poll_enabled,
              can_fetch, last_poll, drew, mutated, waited, sent, received,
              queued, last_attempt, polled>>

\* model/transcript.rs: a line handed to parse_envelope.
VARIABLES
    parse_line,       \* the TranscriptEnvelope of the line
    parsed            \* what parse_envelope returned for it, or NotParsed

parseVars == <<parse_line, parsed>>

otherVars == <<featureVars, loopVars, parseVars>>

\* Everything but the process orchestrator.
restVars == <<classifyVars, watchVars, sessionVars, otherVars>>

vars == <<processVars, restVars>>

\* The lists of App::new, before anything is on disk.
Lists == {"teams", "tasks", "inbox", "todos", "plans", "git"}
LoadErr == -1
IndexErr == <<"IndexErr">>

FeatureIdle ==
    /\ index = <<>>
    /\ disk = [l \in Lists |-> 0]
    /\ teams = 0
    /\ tasks = 0
    /\ inbox_messages = 0
    /\ agent_statuses = <<>>
    /\ todo_files = 0
    /\ plan_files = 0
    /\ git_status = 0
    /\ subagent_file = <<>>

\* The remote trackers run_app polls on a timer.
Trackers == {"github_prs", "github_issues", "jira", "linear"}

\* No request was sent yet.
NoAttempt == -1

\* run_app before its loop, with no tracker configured.
LoopIdle ==
    /\ pc = "draw"
    /\ dirty = TRUE
    /\ should_quit = FALSE
    /\ time = 0
    /\ last_tick = 0
    /\ event_rx = <<>>
    /\ poll_enabled = [t \in Trackers |-> FALSE]
    /\ can_fetch = [t \in Trackers |-> FALSE]
    /\ last_poll = [t \in Trackers |-> 0]
    /\ drew = FALSE
    /\ mutated = FALSE
    /\ waited = 0
    /\ sent = 0
    /\ received = 0
    /\ queued = 0
    /\ last_attempt = [t \in Trackers |-> NoAttempt]
    /\ polled = {}

\* parse_envelope was not called yet.
NotParsed == <<[timestamp |-> 0, kind |-> "NotParsed", text |-> 0]>>

\* No line is being parsed.
ParseIdle ==
    /\ parse_line = [kind |-> "none"]
    /\ parsed = NotParsed

OtherIdle == FeatureIdle /\ LoopIdle /\ ParseIdle

appVars == <<processes, process_children, process_index, process_rx,
             next_process_id, last_error>>
osVars == <<os_state, os_success, plan, written, pipe, reader>>

Min(a, b) == IF a < b THEN a ELSE b

Range(s) == {s[i] : i \in 1..Len(s)}

\* ProcessOutput::Stdout(id, line) / Stderr(id, line) / Exited(id, success)
Stdout(id, line) == [kind |-> "Stdout", id |-> id, line |-> line, success |-> FALSE]
Stderr(id, line) == [kind |-> "Stderr", id |-> id, line |-> line, success |-> FALSE]
Exited(id, success) == [kind |-> "Exited", id |-> id, line |-> 0, success |-> success]

LineMsg(s, id, line) == IF s = "Stdout" THEN Stdout(id, line) ELSE Stderr(id, line)

\* SpawnedProcess { id, status: Running, output_lines: empty, error_lines: empty }
SpawnedProcess(id) ==
    [id |-> id, status |-> "Running", output_lines |-> <<>>, error_lines |-> <<>>]

\* Mutant of FindProc: an id that matches no record falls back to the last
\* record.
FindProcOrLast(procs, id) ==
    IF \E i \in 1..Len(procs) : procs[i].id = id
    THEN CHOOSE i \in 1..Len(procs) :
             procs[i].id = id /\ \A j \in 1..(i - 1) : procs[j].id # id
    ELSE Len(procs)

\* self.processes.iter_mut().find(|p| p.id == id): the first match, 0 for None
FindProc(procs, id) ==
    IF \E i \in 1..Len(procs) : procs[i].id = id
    THEN CHOOSE i \in 1..Len(procs) :
             procs[i].id = id /\ \A j \in 1..(i - 1) : procs[j].id # id
    ELSE 0

\* self.process_children.retain(|(pid, _)| *pid != id)
Retain(children, id) == SelectSeq(children, LAMBDA c : c # id)

\* if success { Completed } else { Failed }
StatusOf(success) == IF success THEN "Completed" ELSE "Failed"

\* proc.output_lines.push(line) / proc.error_lines.push(line)
PushLine(buf, line) == Append(buf, line)

\* One iteration of the `while let Ok(msg) = rx.try_recv()` loop.
\* st = [procs, children].
ApplyOutput(st, msg) ==
    LET i == FindProc(st.procs, msg.id)
    IN  CASE msg.kind = "Stdout" ->
               IF i = 0 THEN st
               ELSE [st EXCEPT !.procs[i].output_lines = PushLine(@, msg.line)]
          [] msg.kind = "Stderr" ->
               IF i = 0 THEN st
               ELSE [st EXCEPT !.procs[i].error_lines = PushLine(@, msg.line)]
          [] msg.kind = "Exited" ->
               [procs |-> IF i = 0 THEN st.procs
                          ELSE [st.procs EXCEPT ![i].status = StatusOf(msg.success)],
                children |-> Retain(st.children, msg.id)]

\* Mutant of DrainAll: the queued messages are applied newest first.
RECURSIVE DrainAllLifo(_, _)
DrainAllLifo(st, q) ==
    IF q = <<>> THEN st
    ELSE DrainAllLifo(ApplyOutput(st, q[Len(q)]), SubSeq(q, 1, Len(q) - 1))

\* The whole try_recv loop: every queued message, oldest first.
RECURSIVE DrainAll(_, _)
DrainAll(st, q) ==
    IF q = <<>> THEN st ELSE DrainAll(ApplyOutput(st, Head(q)), Tail(q))

\* An exit check that takes an Err of try_wait for a child still running.
RECURSIVE CollectExitedSkipsErr(_, _)
CollectExitedSkipsErr(children, errs) ==
    IF children = <<>> THEN <<>>
    ELSE LET id == Head(children)
             rest == CollectExitedSkipsErr(Tail(children), errs)
         IN  IF id \notin errs /\ os_state[id] = "exited"
             THEN << [id |-> id, success |-> os_success[id]] >> \o rest
             ELSE rest

\* The `for (id, child) in &mut self.process_children` loop: child.try_wait()
\* gives Ok(Some(status)) for an exited child, Ok(None) for a running one,
\* and may fail (errs: the ids whose try_wait returns Err).
RECURSIVE CollectExited(_, _)
CollectExited(children, errs) ==
    IF children = <<>> THEN <<>>
    ELSE LET id == Head(children)
             rest == CollectExited(Tail(children), errs)
         IN  IF id \in errs THEN << [id |-> id, success |-> FALSE] >> \o rest
             ELSE IF os_state[id] = "exited"
                  THEN << [id |-> id, success |-> os_success[id]] >> \o rest
                  ELSE rest

\* Mutant of ReapOne: the child handle is dropped but the status is left.
ReapOneKeepsStatus(st, e) ==
    [procs |-> st.procs, children |-> Retain(st.children, e.id)]

\* One iteration of `for (id, success) in exited`.
ReapOne(st, e) ==
    LET i == FindProc(st.procs, e.id)
    IN  [procs |-> IF i # 0 /\ st.procs[i].status = "Running"
                   THEN [st.procs EXCEPT ![i].status = StatusOf(e.success)]
                   ELSE st.procs,
         children |-> Retain(st.children, e.id)]

RECURSIVE ReapExited(_, _)
ReapExited(st, exited) ==
    IF exited = <<>> THEN st ELSE ReapExited(ReapOne(st, Head(exited)), Tail(exited))

\* Lines the children spawned so far are going to write.
TotalPlanned ==
    LET RECURSIVE Sum(_)
        Sum(n) == IF n = 0 THEN 0
                  ELSE plan[n]["Stdout"] + plan[n]["Stderr"] + Sum(n - 1)
    IN  Sum(MaxProcs)

\* The process fields of App::new.
ProcessInit ==
    /\ processes = <<>>
    /\ process_children = <<>>
    /\ process_index = 0
    /\ process_rx = FALSE
    /\ next_process_id = 1
    /\ last_error = "None"
    /\ chan = <<>>
    /\ os_state = [id \in Ids |-> "none"]
    /\ os_success = [id \in Ids |-> FALSE]
    /\ plan = [id \in Ids |-> [s \in Streams |-> 0]]
    /\ written = [id \in Ids |-> [s \in Streams |-> 0]]
    /\ pipe = [id \in Ids |-> [s \in Streams |-> <<>>]]
    /\ reader = [id \in Ids |-> [s \in Streams |-> "none"]]
    /\ exit_reported = [id \in Ids |-> FALSE]
    /\ kill_sent = {}
    /\ injected = 0

\* The callback has not classified the event (yet).
Pending == [kind |-> "Pending", team |-> <<>>, path |-> <<>>]

\* No event is being classified.
ClassifyIdle ==
    /\ path_str = <<>>
    /\ change = Pending

\* process_runner::spawn_claude_headless returning Ok(child): the child runs
\* with both pipes open and one reader thread per pipe has been started.
\* no, ne: the lines the child is going to write on stdout and stderr.
spawn_claude_headless(id, no, ne) ==
    /\ os_state' = [os_state EXCEPT ![id] = "running"]
    /\ plan' = [plan EXCEPT ![id] = [s \in Streams |-> IF s = "Stdout" THEN no ELSE ne]]
    /\ reader' = [reader EXCEPT ![id] = [s \in Streams |-> "running"]]
    /\ UNCHANGED <<os_success, written, pipe>>

\* App::spawn_claude_process, the `Ok(child)` arm.
SpawnOkArm(id) ==
    /\ processes' = Append(processes, SpawnedProcess(id))
    /\ process_children' = Append(process_children, id)
    /\ process_index' = Len(processes)
    /\ UNCHANGED last_error

\* Mutant of SpawnErrArm: the record is pushed before the result is matched.
SpawnErrArmPushes(id) ==
    /\ last_error' = "Failed to spawn claude"
    /\ processes' = Append(processes, [SpawnedProcess(id) EXCEPT !.status = "Failed"])
    /\ UNCHANGED <<process_children, process_index>>

\* App::spawn_claude_process, the `Err(e)` arm.
SpawnErrArm(id) ==
    /\ last_error' = "Failed to spawn claude"
    /\ UNCHANGED <<processes, process_children, process_index>>

\* Mutant of spawn_claude_process: the counter is read but not advanced.
spawn_claude_process_keeps_counter(maxp, maxt) ==
    /\ next_process_id <= maxp
    /\ LET id == next_process_id
       IN  /\ process_rx' = TRUE
           /\ next_process_id' = id
           /\ \E ok \in BOOLEAN :
                IF ok
                THEN /\ \E no, ne \in 0..MaxLines :
                            /\ TotalPlanned + no + ne <= maxt
                            /\ spawn_claude_headless(id, no, ne)
                     /\ SpawnOkArm(id)
                ELSE /\ SpawnErrArm(id)
                     /\ UNCHANGED osVars
    /\ UNCHANGED <<chan, exit_reported, kill_sent, injected>>

\* App::spawn_claude_process (with ensure_process_channel).
\* maxp, maxt: the bounds on spawn attempts and on the lines of all children.
spawn_claude_process(maxp, maxt) ==
    /\ next_process_id <= maxp
    /\ LET id == next_process_id
       IN  /\ process_rx' = TRUE
           /\ next_process_id' = id + 1
           /\ \E ok \in BOOLEAN :
                IF ok
                THEN /\ \E no, ne \in 0..MaxLines :
                            /\ TotalPlanned + no + ne <= maxt
                            /\ spawn_claude_headless(id, no, ne)
                     /\ SpawnOkArm(id)
                ELSE /\ SpawnErrArm(id)
                     /\ UNCHANGED osVars
    /\ UNCHANGED <<chan, exit_reported, kill_sent, injected>>

\* A poll_process_output that also clears last_error.
poll_process_output_clears_error ==
    IF ~process_rx
    THEN UNCHANGED processVars
    ELSE LET d == DrainAll([procs |-> processes, children |-> process_children], chan)
         IN  \E errs \in SUBSET Range(d.children) :
                LET r == ReapExited(d, CollectExited(d.children, errs))
                IN  /\ processes' = r.procs
                    /\ process_children' = r.children
                    /\ chan' = <<>>
                    /\ last_error' = "None"
                    /\ UNCHANGED <<process_index, process_rx, next_process_id,
                                   osVars, exit_reported, kill_sent, injected>>

\* App::poll_process_output, called on every tick of run_app.
poll_process_output ==
    IF ~process_rx
    THEN UNCHANGED processVars
    ELSE LET d == DrainAll([procs |-> processes, children |-> process_children], chan)
         IN  \E errs \in SUBSET Range(d.children) :
                LET r == ReapExited(d, CollectExited(d.children, errs))
                IN  /\ processes' = r.procs
                    /\ process_children' = r.children
                    /\ chan' = <<>>
                    /\ UNCHANGED <<process_index, process_rx, next_process_id,
                                   last_error, osVars, exit_reported, kill_sent,
                                   injected>>

\* Child::kill on the OS process: a running child dies with a failure status
\* and writes nothing more; an exited child keeps its exit status.
OsKill(id) ==
    /\ os_state' = [os_state EXCEPT ![id] = "exited"]
    /\ os_success' = [os_success EXCEPT ![id] =
                         IF os_state[id] = "running" THEN FALSE ELSE @]
    /\ kill_sent' = kill_sent \cup {id}

\* A kill_selected_process that kills the child and keeps its handle.
kill_selected_process_keeps_child ==
    IF processes = <<>>
    THEN UNCHANGED processVars
    ELSE LET idx == Min(process_index, Len(processes) - 1) + 1
             id == processes[idx].id
         IN  IF processes[idx].status # "Running"
             THEN UNCHANGED processVars
             ELSE /\ IF id \in Range(process_children)
                     THEN OsKill(id)
                     ELSE UNCHANGED <<os_state, os_success, kill_sent>>
                  /\ processes' = [processes EXCEPT ![idx].status = "Failed"]
                  /\ UNCHANGED <<process_children, process_index, process_rx,
                                 next_process_id, last_error, chan, plan, written,
                                 pipe, reader, exit_reported, injected>>

\* App::kill_selected_process.
kill_selected_process ==
    IF processes = <<>>
    THEN UNCHANGED processVars
    ELSE LET idx == Min(process_index, Len(processes) - 1) + 1
             id == processes[idx].id
         IN  IF processes[idx].status # "Running"
             THEN UNCHANGED processVars
             ELSE /\ IF id \in Range(process_children)
                     THEN /\ OsKill(id)
                          /\ process_children' = Retain(process_children, id)
                     ELSE UNCHANGED <<os_state, os_success, kill_sent, process_children>>
                  /\ processes' = [processes EXCEPT ![idx].status = "Failed"]
                  /\ UNCHANGED <<process_index, process_rx, next_process_id,
                                 last_error, chan, plan, written, pipe, reader,
                                 exit_reported, injected>>

\* App::select_next on the Processes list.
select_next ==
    /\ processes # <<>>
    /\ process_index' = Min(process_index + 1, Len(processes) - 1)
    /\ UNCHANGED <<processes, process_children, process_rx, next_process_id,
                   last_error, chan, osVars, exit_reported, kill_sent, injected>>

\* App::select_prev on the Processes list.
select_prev ==
    /\ process_index' = IF process_index = 0 THEN 0 ELSE process_index - 1
    /\ UNCHANGED <<processes, process_children, process_rx, next_process_id,
                   last_error, chan, osVars, exit_reported, kill_sent, injected>>

\* The child writes its next line on stream s.  It blocks while the pipe is
\* full; when the read end is closed (the reader has stopped) the write fails
\* and the line is lost.
ChildWrite(id, s) ==
    /\ os_state[id] = "running"
    /\ written[id][s] < plan[id][s]
    /\ IF reader[id][s] = "failed"
       THEN UNCHANGED pipe
       ELSE /\ Len(pipe[id][s]) < PipeCap
            /\ pipe' = [pipe EXCEPT ![id][s] = Append(@, written[id][s] + 1)]
    /\ written' = [written EXCEPT ![id][s] = @ + 1]
    /\ UNCHANGED <<appVars, chan, os_state, os_success, plan, reader,
                   exit_reported, kill_sent, injected>>

\* The child exits once it has written everything, with either status.
ChildExit(id) ==
    /\ os_state[id] = "running"
    /\ \A s \in Streams : written[id][s] = plan[id][s]
    /\ os_state' = [os_state EXCEPT ![id] = "exited"]
    /\ \E ok \in BOOLEAN : os_success' = [os_success EXCEPT ![id] = ok]
    /\ UNCHANGED <<appVars, chan, plan, written, pipe, reader, exit_reported,
                   kill_sent, injected>>

\* Mutant of ReaderSend: the pipe is drained only once the child has exited.
ReaderSendAfterExit(id, s) ==
    /\ os_state[id] = "exited"
    /\ reader[id][s] = "running"
    /\ pipe[id][s] # <<>>
    /\ Len(chan) < MaxQueue
    /\ chan' = Append(chan, LineMsg(s, id, Head(pipe[id][s])))
    /\ pipe' = [pipe EXCEPT ![id][s] = Tail(@)]
    /\ UNCHANGED <<appVars, os_state, os_success, plan, written, reader,
                   exit_reported, kill_sent, injected>>

\* Reader thread, `Ok(text) => tx.send(...)`: one line read and sent.
ReaderSend(id, s) ==
    /\ reader[id][s] = "running"
    /\ pipe[id][s] # <<>>
    /\ Len(chan) < MaxQueue
    /\ chan' = Append(chan, LineMsg(s, id, Head(pipe[id][s])))
    /\ pipe' = [pipe EXCEPT ![id][s] = Tail(@)]
    /\ UNCHANGED <<appVars, os_state, os_success, plan, written, reader,
                   exit_reported, kill_sent, injected>>

\* Reader thread, `Err(_) => break`: the read of a line fails (for instance
\* the line is not valid UTF-8); the thread ends and drops its pipe end.
ReaderFail(id, s) ==
    /\ reader[id][s] = "running"
    /\ pipe[id][s] # <<>>
    /\ reader' = [reader EXCEPT ![id][s] = "failed"]
    /\ pipe' = [pipe EXCEPT ![id][s] = <<>>]
    /\ UNCHANGED <<appVars, chan, os_state, os_success, plan, written,
                   exit_reported, kill_sent, injected>>

\* Reader thread, end of `for line in reader.lines()`: end-of-stream, which
\* the pipe reports once it is empty and the child has exited.
ReaderEof(id, s) ==
    /\ reader[id][s] = "running"
    /\ pipe[id][s] = <<>>
    /\ os_state[id] = "exited"
    /\ reader' = [reader EXCEPT ![id][s] = "eof"]
    /\ UNCHANGED <<appVars, chan, os_state, os_success, plan, written, pipe,
                   exit_reported, kill_sent, injected>>

\* The orchestrator's explicit exit signal: Exited{id, success} once both
\* pipes have reached end-of-stream and the process has exited.
ReportExit(id) ==
    /\ os_state[id] = "exited"
    /\ \A s \in Streams : reader[id][s] \in {"eof", "failed"}
    /\ ~exit_reported[id]
    /\ Len(chan) < MaxQueue
    /\ chan' = Append(chan, Exited(id, os_success[id]))
    /\ exit_reported' = [exit_reported EXCEPT ![id] = TRUE]
    /\ UNCHANGED <<appVars, osVars, kill_sent, injected>>

\* A foreign holder of a clone of process_tx sends a message whose id was
\* handed out to no record: 0, or the id a failed spawn consumed.
Inject(msg) ==
    /\ process_rx
    /\ injected < MaxInject
    /\ Len(chan) < MaxQueue
    /\ msg.id < next_process_id
    /\ FindProc(processes, msg.id) = 0
    /\ chan' = Append(chan, msg)
    /\ injected' = injected + 1
    /\ UNCHANGED <<appVars, osVars, exit_reported, kill_sent>>

OutOfBandMsgs ==
    {Stdout(id, 1) : id \in 0..MaxProcs} \cup {Stderr(id, 1) : id \in 0..MaxProcs}
        \cup {Exited(id, ok) : id \in 0..MaxProcs, ok \in BOOLEAN}

\* ------------------------------------------------- watcher/mod.rs: classifier
\* A path is text, modelled as the sequence of its pieces: the separators
\* "/" and "\" and the words between them, a word being cut where a pattern
\* of classify_change could start or end inside it (myplans is "my" "plans",
\* a.jsonl is "a" ".json" "l").  No piece is a proper part of a piece of a
\* pattern, so a pattern occurs in the text exactly where its pieces occur
\* in the sequence.

\* str::contains
Contains(text, pat) ==
    \E i \in 1..(Len(text) - Len(pat) + 1) : SubSeq(text, i, i + Len(pat) - 1) = pat

\* str::ends_with
EndsWith(text, pat) ==
    /\ Len(text) >= Len(pat)
    /\ SubSeq(text, Len(text) - Len(pat) + 1, Len(text)) = pat

\* str::find: the start of the first occurrence, 0 for None
Find(text, pat) ==
    IF Contains(text, pat)
    THEN CHOOSE i \in 1..(Len(text) - Len(pat) + 1) :
             /\ SubSeq(text, i, i + Len(pat) - 1) = pat
             /\ \A j \in 1..(i - 1) : SubSeq(text, j, j + Len(pat) - 1) # pat
    ELSE 0

\* Mutant of Replace: the text is left as it is.
ReplaceNothing(text) == text

\* path_str.replace('\\', "/")
Replace(text) == [i \in 1..Len(text) |-> IF text[i] = "\\" THEN "/" ELSE text[i]]

\* Option<FileChange>: None and the nine variants of FileChange.  `team` is
\* the String of TeamConfig, TeamInbox and TaskFile (the second String of
\* TeamInbox is always empty), `path` the PathBuf of the others.
None == [kind |-> "None", team |-> <<>>, path |-> <<>>]
GitChange == [kind |-> "GitChange", team |-> <<>>, path |-> <<>>]
SessionIndex == [kind |-> "SessionIndex", team |-> <<>>, path |-> <<>>]
SubagentTranscript(path) == [kind |-> "SubagentTranscript", team |-> <<>>, path |-> path]
Transcript(path) == [kind |-> "Transcript", team |-> <<>>, path |-> path]
TeamConfig(name) == [kind |-> "TeamConfig", team |-> name, path |-> <<>>]
TeamInbox(name) == [kind |-> "TeamInbox", team |-> name, path |-> <<>>]
TaskFile(name) == [kind |-> "TaskFile", team |-> name, path |-> <<>>]
TodoFile(path) == [kind |-> "TodoFile", team |-> <<>>, path |-> path]
PlanFile(path) == [kind |-> "PlanFile", team |-> <<>>, path |-> path]

\* extract_segment: the segment after the first occurrence of the prefix;
\* <<>> for None (no occurrence, or an empty segment).
extract_segment(path, prefix) ==
    LET idx == Find(path, prefix)
    IN  IF idx = 0 THEN <<>>
        ELSE LET rest == SubSeq(path, idx + Len(prefix), Len(path))
                 end == IF Contains(rest, <<"/">>) THEN Find(rest, <<"/">>)
                        ELSE Len(rest) + 1
             IN  SubSeq(rest, 1, end - 1)

\* Mutant of classify_change: the git rule is tried last.
classify_change_git_last(text, encoded_project, path) ==
    LET normalized == Replace(text)
        project == <<"projects", "/">> \o encoded_project \o <<"/">>
    IN  CASE Contains(normalized, project \o <<"sessions-index", ".json">>) ->
               SessionIndex
          [] /\ Contains(normalized, project)
             /\ Contains(normalized, <<"/", "subagents", "/">>)
             /\ EndsWith(normalized, <<".json", "l">>) ->
               SubagentTranscript(path)
          [] Contains(normalized, project) /\ EndsWith(normalized, <<".json", "l">>) ->
               Transcript(path)
          [] /\ Contains(normalized, <<"teams", "/">>)
             /\ EndsWith(normalized, <<"config", ".json">>)
             /\ extract_segment(normalized, <<"teams", "/">>) # <<>> ->
               TeamConfig(extract_segment(normalized, <<"teams", "/">>))
          [] /\ Contains(normalized, <<"teams", "/">>)
             /\ Contains(normalized, <<"inboxes", "/">>)
             /\ extract_segment(normalized, <<"teams", "/">>) # <<>> ->
               TeamInbox(extract_segment(normalized, <<"teams", "/">>))
          [] /\ Contains(normalized, <<"tasks", "/">>)
             /\ EndsWith(normalized, <<".json">>)
             /\ extract_segment(normalized, <<"tasks", "/">>) # <<>> ->
               TaskFile(extract_segment(normalized, <<"tasks", "/">>))
          [] Contains(normalized, <<"todos", "/">>) /\ EndsWith(normalized, <<".json">>) ->
               TodoFile(path)
          [] Contains(normalized, <<"plans", "/">>) /\ EndsWith(normalized, <<".md">>) ->
               PlanFile(path)
          [] \/ Contains(normalized, <<"/", ".git", "/">>)
             \/ EndsWith(normalized, <<"/", ".git">>) ->
               IF \/ EndsWith(normalized, <<"/", "index">>)
                  \/ EndsWith(normalized, <<"/", "HEAD">>)
                  \/ Contains(normalized, <<"/", "refs", "/">>)
               THEN GitChange
               ELSE None
          [] OTHER -> None

\* classify_change(path_str, encoded_project, path): the rules in the order
\* of the code, the first that matches returning.  A team rule whose
\* extract_segment gives None falls through to the next rule.
classify_change(text, encoded_project, path) ==
    LET normalized == Replace(text)
        project == <<"projects", "/">> \o encoded_project \o <<"/">>
        team_name == extract_segment(normalized, <<"teams", "/">>)
        task_team == extract_segment(normalized, <<"tasks", "/">>)
    IN  IF \/ Contains(normalized, <<"/", ".git", "/">>)
           \/ EndsWith(normalized, <<"/", ".git">>)
        THEN IF \/ EndsWith(normalized, <<"/", "index">>)
                \/ EndsWith(normalized, <<"/", "HEAD">>)
                \/ Contains(normalized, <<"/", "refs", "/">>)
             THEN GitChange
             ELSE None
        ELSE IF Contains(normalized, project \o <<"sessions-index", ".json">>)
        THEN SessionIndex
        ELSE IF /\ Contains(normalized, project)
                /\ Contains(normalized, <<"/", "subagents", "/">>)
                /\ EndsWith(normalized, <<".json", "l">>)
        THEN SubagentTranscript(path)
        ELSE IF Contains(normalized, project) /\ EndsWith(normalized, <<".json", "l">>)
        THEN Transcript(path)
        ELSE IF /\ Contains(normalized, <<"teams", "/">>)
                /\ EndsWith(normalized, <<"config", ".json">>)
                /\ team_name # <<>>
        THEN TeamConfig(team_name)
        ELSE IF /\ Contains(normalized, <<"teams", "/">>)
                /\ Contains(normalized, <<"inboxes", "/">>)
                /\ team_name # <<>>
        THEN TeamInbox(team_name)
        ELSE IF /\ Contains(normalized, <<"tasks", "/">>)
                /\ EndsWith(normalized, <<".json">>)
                /\ task_team # <<>>
        THEN TaskFile(task_team)
        ELSE IF Contains(normalized, <<"todos", "/">>) /\ EndsWith(normalized, <<".json">>)
        THEN TodoFile(path)
        ELSE IF Contains(normalized, <<"plans", "/">>) /\ EndsWith(normalized, <<".md">>)
        THEN PlanFile(path)
        ELSE None

\* The encoded name of the watched project, and of another project.
encoded_project == <<"enc">>
other_project == <<"other">>

\* Segments joined by "/".
RECURSIVE Join(_)
Join(segs) ==
    IF Len(segs) = 1 THEN Head(segs) ELSE Head(segs) \o <<"/">> \o Join(Tail(segs))

\* The same text with the separators a Windows path has.
Backslashed(text) == [i \in 1..Len(text) |-> IF text[i] = "/" THEN "\\" ELSE text[i]]

\* Directories a watched tree can hang under: claude_home in a plain home
\* directory and in ones whose own path holds the text of a rule, and the
\* project's working directory.
Roots ==
    {<<"/", "home", "/", w, "/", "u", "/", ".claude">> :
        w \in {"work", "teams", "tasks", "todos", "plans"}}
        \cup {<<"/", "home", "/", "u", "/", "repo">>}

\* Paths below a root, as segments.
Rels ==
    {<< <<"projects">>, project, <<"sessions-index", ".json">> >> :
        project \in {encoded_project, other_project}}
    \cup {<< <<"projects">>, project, <<file, ".json", "l">> >> :
        project \in {encoded_project, other_project}, file \in {"s1", "sessions-index"}}
    \cup {<< <<"projects">>, project, <<"s1">>, <<"subagents">>, <<"a", ".json", "l">> >> :
        project \in {encoded_project, other_project}}
    \cup {<< <<area>>, <<"alpha">>, <<"a", ext>> >> :
        area \in {"teams", "tasks", "todos", "plans"}, ext \in {".json", ".md"}}
    \cup {<< <<area>>, <<"a", ext>> >> :
        area \in {"teams", "tasks", "todos", "plans"}, ext \in {".json", ".md"}}
    \cup {<< <<"teams">>, <<"alpha">>, <<"inboxes">>, file >> :
        file \in {<<"a", ".json">>, <<"config", ".json">>}}
    \cup {<< <<"teams">>, <<"alpha">>, file >> :
        file \in {<<"config", ".json">>, <<"my", "config", ".json">>}}
    \cup {<< <<"teams">>, <<"config", ".json">> >>,
          << <<"todos">>, <<"config", ".json">> >>,
          << <<"my", "plans">>, <<"a", ".md">> >>,
          << <<"node_modules">>, <<"x", ".js">> >>}
    \cup {<< <<".git">> >>,
          << <<".git">>, <<"HEAD">> >>,
          << <<".git">>, <<"index">> >>,
          << <<".git">>, <<"config">> >>,
          << <<".git">>, <<"refs">>, <<"heads">>, <<"x">> >>,
          << <<".git">>, <<"a", ".json", "l">> >>,
          << <<".git">>, <<"todos">>, <<"a", ".json">> >>,
          << <<".git">>, <<"plans">>, <<"a", ".md">> >>}

\* The paths an event can carry, with either separator.
Paths ==
    LET unix == {root \o <<"/">> \o Join(rel) : root \in Roots, rel \in Rels}
    IN  unix \cup {Backslashed(text) : text \in unix}

\* ------------------------------------------- transcripts: parsing and tailing
\* config.rs: JSONL_TAIL_LINES = 200, scaled down so that a file of
\* MaxFileLines lines can be longer than the tail.
JSONL_TAIL_LINES == 2

\* Most lines of a transcript file.
MaxFileLines == 4
\* Largest tail budget .assoc.toml sets.
MaxTailLines == 3

SessionIds == {"s1"}

\* The text of a segment is modelled by a number, 0 for the empty string;
\* the timestamp of an envelope by the number of its line in the file.
\* MessageContent::Text / MessageContent::Blocks, and no message at all.
NoMessage == [form |-> "None", text |-> 0, blocks |-> <<>>]
Text(str) == [form |-> "Text", text |-> str, blocks |-> <<>>]
Blocks(blocks) == [form |-> "Blocks", text |-> 0, blocks |-> blocks]

\* ContentBlock::Text / ToolUse / ToolResult / Other
ContentBlock(type, text) == [type |-> type, text |-> text]

\* TranscriptEnvelope { kind, timestamp, message, extra["content"] }
TranscriptEnvelope(kind, message, content) ==
    [kind |-> kind, timestamp |-> 0, message |-> message, content |-> content]

\* A line serde_json cannot parse into a TranscriptEnvelope.
Unparseable == TranscriptEnvelope("unparseable", NoMessage, 0)

\* TranscriptItem { timestamp, kind, text }
TranscriptItem(ts, kind, text) == [timestamp |-> ts, kind |-> kind, text |-> text]

\* Mutant of BlockItems: each item is put in front of those before it.
RECURSIVE BlockItemsReversed(_, _, _)
BlockItemsReversed(blocks, ts, default_kind) ==
    IF blocks = <<>> THEN <<>>
    ELSE LET block == Head(blocks)
             item == CASE block.type = "text" ->
                            IF block.text # 0
                            THEN <<TranscriptItem(ts, default_kind, block.text)>>
                            ELSE <<>>
                       [] block.type = "tool_use" ->
                            <<TranscriptItem(ts, "ToolUse", block.text)>>
                       [] block.type = "tool_result" ->
                            <<TranscriptItem(ts, "ToolResult", block.text)>>
                       [] OTHER -> <<>>
         IN  BlockItemsReversed(Tail(blocks), ts, default_kind) \o item

\* parse_message_items, the `for block in blocks` loop.
RECURSIVE BlockItems(_, _, _)
BlockItems(blocks, ts, default_kind) ==
    IF blocks = <<>> THEN <<>>
    ELSE LET block == Head(blocks)
             item == CASE block.type = "text" ->
                            IF block.text # 0
                            THEN <<TranscriptItem(ts, default_kind, block.text)>>
                            ELSE <<>>
                       [] block.type = "tool_use" ->
                            <<TranscriptItem(ts, "ToolUse", block.text)>>
                       [] block.type = "tool_result" ->
                            <<TranscriptItem(ts, "ToolResult", block.text)>>
                       [] OTHER -> <<>>
         IN  item \o BlockItems(Tail(blocks), ts, default_kind)

\* parse_message_items
parse_message_items(envelope, ts, default_kind) ==
    LET msg == envelope.message
    IN  CASE msg.form = "None" -> <<>>
          [] msg.form = "Text" ->
               IF msg.text = 0 THEN <<>>
               ELSE <<TranscriptItem(ts, default_kind, msg.text)>>
          [] msg.form = "Blocks" -> BlockItems(msg.blocks, ts, default_kind)

\* extract_message_text: the text, or the text of the first text block
extract_message_text(envelope) ==
    LET msg == envelope.message
        texts == SelectSeq(msg.blocks, LAMBDA block : block.type = "text")
    IN  CASE msg.form = "Text" -> msg.text
          [] msg.form = "Blocks" /\ texts # <<>> -> texts[1].text
          [] OTHER -> 0

\* Mutant of parse_envelope: a system envelope is read segment by segment,
\* as a user envelope is.
parse_envelope_system_by_segment(envelope) ==
    LET ts == envelope.timestamp
    IN  CASE envelope.kind = "user" -> parse_message_items(envelope, ts, "User")
          [] envelope.kind = "assistant" ->
               parse_message_items(envelope, ts, "Assistant")
          [] envelope.kind = "system" ->
               parse_message_items(envelope, ts, "System")
          [] envelope.kind = "progress" ->
               IF envelope.content = 0 THEN <<>>
               ELSE <<TranscriptItem(ts, "Progress", envelope.content)>>
          [] OTHER -> <<>>

\* parse_envelope
parse_envelope(envelope) ==
    LET ts == envelope.timestamp
    IN  CASE envelope.kind = "user" -> parse_message_items(envelope, ts, "User")
          [] envelope.kind = "assistant" ->
               parse_message_items(envelope, ts, "Assistant")
          [] envelope.kind = "system" ->
               IF extract_message_text(envelope) = 0 THEN <<>>
               ELSE <<TranscriptItem(ts, "System", extract_message_text(envelope))>>
          [] envelope.kind = "progress" ->
               IF envelope.content = 0 THEN <<>>
               ELSE <<TranscriptItem(ts, "Progress", envelope.content)>>
          [] OTHER -> <<>>

\* The lines a transcript file is made of.
LineShapes ==
    {Unparseable,
     TranscriptEnvelope("summary", NoMessage, 0),
     TranscriptEnvelope("user", Text(1), 0),
     TranscriptEnvelope("assistant",
                        Blocks(<<ContentBlock("text", 1), ContentBlock("tool_use", 2)>>), 0)}

\* The transcript files: up to MaxFileLines lines.
Files == UNION {[1..n -> LineShapes] : n \in 0..MaxFileLines}

\* files[session] when the file cannot be opened.
Missing == <<TranscriptEnvelope("missing", NoMessage, 0)>>

\* The last line of a file whose writer has flushed only part of it.
Fragment == TranscriptEnvelope("fragment", NoMessage, 0)

\* A whole line takes LineBytes bytes, a partly flushed one fewer.
LineBytes == 2
FragmentBytes == 1

\* The length of a file in bytes.
FileLen(file) ==
    IF file # <<>> /\ file[Len(file)] = Fragment
    THEN LineBytes * (Len(file) - 1) + FragmentBytes
    ELSE LineBytes * Len(file)

\* Mutant of ParseLines: a line that does not parse ends the read.
RECURSIVE ParseLinesUntilFailure(_, _, _)
ParseLinesUntilFailure(file, from, to) ==
    IF from > to THEN <<>>
    ELSE IF file[from] \in {Unparseable, Fragment} THEN <<>>
    ELSE parse_envelope([file[from] EXCEPT !.timestamp = from])
             \o ParseLinesUntilFailure(file, from + 1, to)

\* The items of lines from..to of a file, in file order: a line that does
\* not parse is skipped.
RECURSIVE ParseLines(_, _, _)
ParseLines(file, from, to) ==
    IF from > to THEN <<>>
    ELSE (IF file[from] \in {Unparseable, Fragment} THEN <<>>
          ELSE parse_envelope([file[from] EXCEPT !.timestamp = from]))
             \o ParseLines(file, from + 1, to)

\* The last n elements of a sequence (all of it when it is shorter).
LastN(seq, n) == SubSeq(seq, Len(seq) - Min(n, Len(seq)) + 1, Len(seq))

\* TranscriptReader::with_tail_lines
with_tail_lines(n) == [tail_lines |-> n, items |-> <<>>, last_len |-> 0]

\* TranscriptReader::load_initial on a file that opens: the tail of the
\* file and the length read.  The tail budget is counted in lines ("How
\* many lines to load from end of JSONL": the last lines are parsed) or in
\* items ("only the last tail_line_budget parsed items").
load_initial(rd, file, unit) ==
    [rd EXCEPT !.items =
                   IF unit = "lines"
                   THEN ParseLines(file, Len(file) - Min(rd.tail_lines, Len(file)) + 1,
                                   Len(file))
                   ELSE LastN(ParseLines(file, 1, Len(file)), rd.tail_lines),
               !.last_len = FileLen(file)]

\* ProjectConfig::tail_lines
project_config_tail_lines == IF tail_lines = <<>> THEN JSONL_TAIL_LINES ELSE tail_lines[1]

\* The Sessions fields of App::new, before any session is listed.
SessionIdle ==
    /\ sessions = <<>>
    /\ session_list_index = 0
    /\ loaded_session_id = "None"
    /\ transcript_reader = with_tail_lines(JSONL_TAIL_LINES)
    /\ transcript_items = <<>>
    /\ transcript_scroll = 0
    /\ follow_mode = TRUE
    /\ subagents = <<>>
    /\ subagent_index = 0
    /\ subagent_transcript = <<>>
    /\ subagent_reader = with_tail_lines(JSONL_TAIL_LINES)
    /\ viewing_subagent = FALSE
    /\ tail_lines = <<>>
    /\ files = [id \in SessionIds |-> <<>>]
    /\ tail_unit = "lines"
    /\ read_result = "None"
    /\ unchanged_reads = 0

\* Mutant of OpenTranscript: the reader at hand is used for the new file, the
\* items it holds staying in front of those of the new file.
OpenTranscriptReusesReader(session_id, loaded, found) ==
    LET fresh == with_tail_lines(project_config_tail_lines)
    IN  /\ IF files[session_id] # Missing
           THEN LET new == load_initial(fresh, files[session_id], tail_unit)
                    rd == [new EXCEPT !.items = transcript_reader.items \o @]
                IN  /\ transcript_reader' = rd
                    /\ transcript_items' = rd.items
                    /\ loaded_session_id' = session_id
                    /\ transcript_scroll' =
                           IF follow_mode THEN Len(rd.items) ELSE transcript_scroll
                    /\ unchanged_reads' = 1
           ELSE /\ loaded_session_id' = loaded
                /\ UNCHANGED <<transcript_reader, transcript_items,
                               transcript_scroll, unchanged_reads>>
        /\ subagents' = found
        /\ subagent_index' = 0
        /\ subagent_transcript' = <<>>
        /\ subagent_reader' = fresh
        /\ viewing_subagent' = FALSE

\* App::load_selected_transcript past its early returns: the transcript of
\* session_id is opened with a fresh reader and its subagents are scanned.
\* loaded: App.loaded_session_id at that point; found: what
\* subagents::find_subagents finds.
OpenTranscript(session_id, loaded, found) ==
    LET fresh == with_tail_lines(project_config_tail_lines)
    IN  /\ IF files[session_id] # Missing
           THEN LET rd == load_initial(fresh, files[session_id], tail_unit)
                IN  /\ transcript_reader' = rd
                    /\ transcript_items' = rd.items
                    /\ loaded_session_id' = session_id
                    /\ transcript_scroll' =
                           IF follow_mode THEN Len(rd.items) ELSE transcript_scroll
                    /\ unchanged_reads' = 1
           ELSE /\ transcript_reader' = fresh
                /\ loaded_session_id' = loaded
                /\ UNCHANGED <<transcript_items, transcript_scroll, unchanged_reads>>
        /\ subagents' = found
        /\ subagent_index' = 0
        /\ subagent_transcript' = <<>>
        /\ subagent_reader' = fresh
        /\ viewing_subagent' = FALSE

\* App::load_selected_transcript
load_selected_transcript(found) ==
    IF sessions = <<>>
    THEN UNCHANGED <<sessionVars, last_error>>
    ELSE LET idx == Min(session_list_index, Len(sessions) - 1) + 1
             session_id == sessions[idx]
         IN  IF loaded_session_id = session_id
             THEN UNCHANGED <<sessionVars, last_error>>
             ELSE /\ OpenTranscript(session_id, loaded_session_id, found)
                  /\ last_error' = IF files[session_id] # Missing THEN last_error
                                   ELSE "Transcript"
                  /\ UNCHANGED <<sessions, session_list_index, follow_mode,
                                 tail_lines, files, tail_unit, read_result>>

\* The first line of a file that starts at or after byte offset.
FirstWhole(offset) == (offset + LineBytes - 1) \div LineBytes + 1

\* Mutant of read_new: a file shorter than the recorded length is taken to
\* hold nothing new.
read_new_ignores_shrink(rd, file, unit) ==
    IF file = Missing THEN [reader |-> rd, result |-> "Err"]
    ELSE IF FileLen(file) <= rd.last_len
    THEN [reader |-> rd, result |-> "Ok(false)"]
    ELSE LET new == ParseLines(file, FirstWhole(rd.last_len), Len(file))
         IN  [reader |-> [rd EXCEPT !.items = @ \o new, !.last_len = FileLen(file)],
              result |-> IF new # <<>> THEN "Ok(true)" ELSE "Ok(false)"]

\* TranscriptReader::read_new: the reader after the poll and what the poll
\* returns.  A file shorter than the recorded length is loaded afresh; the
\* bytes beyond the recorded length are parsed line by line otherwise, the
\* rest of a line whose beginning was read before being no line that parses.
read_new(rd, file, unit) ==
    IF file = Missing THEN [reader |-> rd, result |-> "Err"]
    ELSE IF FileLen(file) < rd.last_len
    THEN [reader |-> load_initial(with_tail_lines(rd.tail_lines), file, unit),
          result |-> "Ok(true)"]
    ELSE IF FileLen(file) = rd.last_len
    THEN [reader |-> rd, result |-> "Ok(false)"]
    ELSE LET new == ParseLines(file, FirstWhole(rd.last_len), Len(file))
         IN  [reader |-> [rd EXCEPT !.items = @ \o new, !.last_len = FileLen(file)],
              result |-> IF new # <<>> THEN "Ok(true)" ELSE "Ok(false)"]

\* Most reads of an unchanged file that are counted.
MaxReads == 3

\* Mutant of OnReadNew: new items are not copied to the display.
OnReadNewKeepsDisplay(r) ==
    CASE r.result = "Ok(true)" ->
            UNCHANGED <<transcript_items, transcript_scroll, last_error>>
      [] r.result = "Ok(false)" ->
            UNCHANGED <<transcript_items, transcript_scroll, last_error>>
      [] r.result = "Err" ->
            /\ last_error' = "Transcript update"
            /\ UNCHANGED <<transcript_items, transcript_scroll>>

\* Mutant of OnReadNew: a poll without new data empties the display.
OnReadNewClears(r) ==
    CASE r.result = "Ok(true)" ->
            /\ transcript_items' = r.reader.items
            /\ transcript_scroll' =
                   IF follow_mode THEN Len(r.reader.items) ELSE transcript_scroll
            /\ UNCHANGED last_error
      [] r.result = "Ok(false)" ->
            /\ transcript_items' = <<>>
            /\ UNCHANGED <<transcript_scroll, last_error>>
      [] r.result = "Err" ->
            /\ last_error' = "Transcript update"
            /\ UNCHANGED <<transcript_items, transcript_scroll>>

\* App::refresh_transcript, the arms of its match on what read_new returned.
OnReadNew(r) ==
    CASE r.result = "Ok(true)" ->
            /\ transcript_items' = r.reader.items
            /\ transcript_scroll' =
                   IF follow_mode THEN Len(r.reader.items) ELSE transcript_scroll
            /\ UNCHANGED last_error
      [] r.result = "Ok(false)" ->
            UNCHANGED <<transcript_items, transcript_scroll, last_error>>
      [] r.result = "Err" ->
            /\ last_error' = "Transcript update"
            /\ UNCHANGED <<transcript_items, transcript_scroll>>

\* App::refresh_transcript
refresh_transcript ==
    IF loaded_session_id = "None"
    THEN UNCHANGED <<sessionVars, last_error>>
    ELSE LET r == read_new(transcript_reader, files[loaded_session_id], tail_unit)
         IN  /\ transcript_reader' = r.reader
             /\ read_result' = r.result
             /\ unchanged_reads' = Min(unchanged_reads + 1, MaxReads)
             /\ OnReadNew(r)
             /\ UNCHANGED <<sessions, session_list_index, loaded_session_id,
                            follow_mode, subagents, subagent_index,
                            subagent_transcript, subagent_reader, viewing_subagent,
                            tail_lines, files, tail_unit>>

\* App::refresh_subagent_transcript
refresh_subagent_transcript ==
    IF ~viewing_subagent \/ subagent_index >= Len(subagents)
    THEN UNCHANGED <<sessionVars, last_error>>
    ELSE LET r == read_new(subagent_reader, subagent_file, tail_unit)
         IN  /\ subagent_reader' = r.reader
             /\ CASE r.result = "Ok(true)" ->
                       /\ subagent_transcript' = r.reader.items
                       /\ UNCHANGED last_error
                  [] r.result = "Ok(false)" ->
                       UNCHANGED <<subagent_transcript, last_error>>
                  [] r.result = "Err" ->
                       /\ last_error' = "Subagent update"
                       /\ UNCHANGED subagent_transcript
             /\ UNCHANGED <<sessions, session_list_index, loaded_session_id,
                            transcript_reader, transcript_items, transcript_scroll,
                            follow_mode, subagents, subagent_index,
                            viewing_subagent, tail_lines, files, tail_unit,
                            read_result, unchanged_reads>>

\* App::load_sessions
load_sessions(found) ==
    IF index = IndexErr
    THEN /\ last_error' = "Sessions"
         /\ UNCHANGED sessionVars
    ELSE LET first_load == index # <<>> /\ loaded_session_id = "None"
             auto_switch == /\ index # <<>>
                            /\ loaded_session_id # "None"
                            /\ follow_mode
                            /\ session_list_index = 0
                            /\ loaded_session_id # index[1]
             idx == Min(session_list_index, Len(index) - 1) + 1
         IN  /\ sessions' = index
             /\ last_error' = "None"
             /\ IF first_load \/ auto_switch
                THEN OpenTranscript(index[idx], "None", found)
                ELSE UNCHANGED <<transcript_reader, transcript_items,
                                 loaded_session_id, transcript_scroll,
                                 unchanged_reads, subagents, subagent_index,
                                 subagent_transcript, subagent_reader,
                                 viewing_subagent>>
             /\ UNCHANGED <<session_list_index, follow_mode, tail_lines, files,
                            tail_unit, read_result>>

\* The Teams fields of App and its last_error, as the loads of the Teams
\* tab pass them on.
TeamsTab ==
    [teams |-> teams, tasks |-> tasks, inbox_messages |-> inbox_messages,
     agent_statuses |-> agent_statuses, last_error |-> last_error]

\* App::compute_agent_statuses: derived from the team, the lead's inbox on
\* disk (unwrap_or_default) and App.tasks.
compute_agent_statuses(a) ==
    [a EXCEPT !.agent_statuses =
        IF a.teams = 0 THEN <<>>
        ELSE <<a.teams, IF disk["inbox"] = LoadErr THEN 0 ELSE disk["inbox"], a.tasks>>]

\* App::load_tasks_for_selected_team
load_tasks_for_selected_team(a) ==
    IF a.teams = 0 THEN [a EXCEPT !.tasks = 0]
    ELSE IF disk["tasks"] = LoadErr THEN [a EXCEPT !.last_error = "Tasks"]
    ELSE [a EXCEPT !.tasks = disk["tasks"]]

\* App::load_inbox_for_selected_member
load_inbox_for_selected_member(a) ==
    IF a.teams = 0 \/ disk["inbox"] = LoadErr THEN [a EXCEPT !.inbox_messages = 0]
    ELSE [a EXCEPT !.inbox_messages = disk["inbox"]]

\* App::load_teams
load_teams(a) ==
    IF disk["teams"] = LoadErr THEN [a EXCEPT !.last_error = "Teams"]
    ELSE [compute_agent_statuses(
              load_tasks_for_selected_team([a EXCEPT !.teams = disk["teams"]]))
          EXCEPT !.last_error = "None"]

\* The Teams fields and last_error become those of a.
SetTeamsTab(a) ==
    /\ teams' = a.teams
    /\ tasks' = a.tasks
    /\ inbox_messages' = a.inbox_messages
    /\ agent_statuses' = a.agent_statuses
    /\ last_error' = a.last_error

\* Mutant of load_todos: a load that fails empties the list.
load_todos_clears_on_error ==
    IF disk["todos"] = LoadErr
    THEN last_error' = "Todos" /\ todo_files' = 0
    ELSE todo_files' = disk["todos"] /\ last_error' = "None"

\* App::load_todos
load_todos ==
    IF disk["todos"] = LoadErr
    THEN last_error' = "Todos" /\ UNCHANGED todo_files
    ELSE todo_files' = disk["todos"] /\ last_error' = "None"

\* App::load_plans
load_plans ==
    IF disk["plans"] = LoadErr
    THEN last_error' = "Plans" /\ UNCHANGED plan_files
    ELSE plan_files' = disk["plans"] /\ last_error' = "None"

\* App::load_git_data; diff_fails: load_selected_diff cannot load the diff
\* of the selected file.
load_git_data(diff_fails) ==
    IF disk["git"] = LoadErr
    THEN last_error' = "Git" /\ UNCHANGED git_status
    ELSE /\ git_status' = disk["git"]
         /\ last_error' = IF diff_fails /\ disk["git"] # 0 THEN "Diff" ELSE last_error

teamVars == <<teams, tasks, inbox_messages, agent_statuses>>
diskVars == <<index, disk, subagent_file>>

\* Mutant of TodoFileArm: a todo file reloads the plans as well.
TodoFileArmReloadsPlans ==
    /\ todo_files' = IF disk["todos"] = LoadErr THEN todo_files ELSE disk["todos"]
    /\ plan_files' = IF disk["plans"] = LoadErr THEN plan_files ELSE disk["plans"]
    /\ last_error' = IF disk["plans"] = LoadErr THEN "Plans" ELSE "None"
    /\ UNCHANGED <<sessionVars, teamVars, git_status>>

\* App::handle_file_change, the arm of FileChange::TodoFile.
TodoFileArm ==
    /\ load_todos
    /\ UNCHANGED <<sessionVars, teamVars, plan_files, git_status>>

\* App::handle_file_change
handle_file_change(file_change, found, diff_fails) ==
    /\ CASE file_change.kind = "SessionIndex" ->
              /\ load_sessions(found)
              /\ UNCHANGED <<teamVars, todo_files, plan_files, git_status>>
         [] file_change.kind = "Transcript" ->
              /\ refresh_transcript
              /\ UNCHANGED <<teamVars, todo_files, plan_files, git_status>>
         [] file_change.kind = "SubagentTranscript" ->
              /\ refresh_subagent_transcript
              /\ UNCHANGED <<teamVars, todo_files, plan_files, git_status>>
         [] file_change.kind = "TeamConfig" ->
              /\ SetTeamsTab(load_teams(TeamsTab))
              /\ UNCHANGED <<sessionVars, todo_files, plan_files, git_status>>
         [] file_change.kind = "TeamInbox" ->
              /\ SetTeamsTab(compute_agent_statuses(
                                 load_inbox_for_selected_member(TeamsTab)))
              /\ UNCHANGED <<sessionVars, todo_files, plan_files, git_status>>
         [] file_change.kind = "TaskFile" ->
              /\ SetTeamsTab(compute_agent_statuses(
                                 load_tasks_for_selected_team(TeamsTab)))
              /\ UNCHANGED <<sessionVars, todo_files, plan_files, git_status>>
         [] file_change.kind = "TodoFile" -> TodoFileArm
         [] file_change.kind = "GitChange" ->
              /\ load_git_data(diff_fails)
              /\ UNCHANGED <<sessionVars, teamVars, todo_files, plan_files>>
         [] file_change.kind = "PlanFile" ->
              /\ load_plans
              /\ UNCHANGED <<sessionVars, teamVars, todo_files, git_status>>
    /\ UNCHANGED diskVars

\* App::cycle_subagent with its load_subagent_transcript.
cycle_subagent ==
    IF subagents = <<>>
    THEN UNCHANGED <<sessionVars, last_error>>
    ELSE LET index_next == IF ~viewing_subagent THEN 0 ELSE subagent_index + 1
             fresh == with_tail_lines(project_config_tail_lines)
         IN  /\ IF viewing_subagent /\ index_next >= Len(subagents)
                THEN /\ viewing_subagent' = FALSE
                     /\ subagent_index' = 0
                     /\ UNCHANGED <<subagent_reader, subagent_transcript, last_error>>
                ELSE /\ viewing_subagent' = TRUE
                     /\ subagent_index' = index_next
                     /\ IF subagent_file # Missing
                        THEN LET rd == load_initial(fresh, subagent_file, tail_unit)
                             IN  /\ subagent_reader' = rd
                                 /\ subagent_transcript' = rd.items
                                 /\ UNCHANGED last_error
                        ELSE /\ subagent_reader' = fresh
                             /\ last_error' = "Subagent transcript"
                             /\ UNCHANGED subagent_transcript
             /\ UNCHANGED <<sessions, session_list_index, loaded_session_id,
                            transcript_reader, transcript_items, transcript_scroll,
                            follow_mode, subagents, tail_lines, files, tail_unit,
                            read_result, unchanged_reads>>

\* The directories start_watcher may watch and the feature of each.
Dirs == {"project_dir", "teams_dir", "tasks_dir", "todos_dir", "plans_dir", "git_dir"}
Features == {"sessions", "teams", "todos", "plans", "git"}

\* claude_home of the running dashboard.
claude_home == <<"/", "home", "/", "work", "/", "u", "/", ".claude">>

\* The paths raw events arrive on: a todo file, and a file no rule matches.
EventPaths ==
    {claude_home \o <<"/">> \o Join(rel) :
        rel \in {<< <<"todos">>, <<"a", ".json">> >>,
                 << <<"teams">>, <<"alpha">>, <<"a", ".md">> >>}}

\* The watched directory a path lies in.
EventDir(path) ==
    IF Contains(path, <<"/", "todos", "/">>) THEN "todos_dir" ELSE "teams_dir"

NoEntry == [insert |-> -1, update |-> -1]

\* Before start_watcher is called, with everything enabled and present.
WatchIdle ==
    /\ tabs_config = [f \in Features |-> TRUE]
    /\ dir_exists = [d \in Dirs |-> TRUE]
    /\ watch_err = {}
    /\ debouncer_err = FALSE
    /\ watcher = "none"
    /\ watch_calls = {}
    /\ watched = {}
    /\ now = 0
    /\ pending = [p \in EventPaths |-> NoEntry]
    /\ emitted = <<>>
    /\ event_tx = <<>>
    /\ raw = [p \in EventPaths |-> [count |-> 0, first |-> 0, last |-> 0]]

Init ==
    /\ ProcessInit
    /\ OtherIdle
    /\ ClassifyIdle
    /\ WatchIdle
    /\ SessionIdle

\* An event on some path reaches the debouncer callback.
ClassifyInit ==
    /\ ProcessInit
    /\ OtherIdle
    /\ WatchIdle
    /\ SessionIdle
    /\ path_str \in Paths
    /\ change = Pending

\* The callback's `classify_change(&path_str, &encoded_clone, path)`.
classify_event ==
    /\ change = Pending
    /\ change' = classify_change(path_str, encoded_project, path_str)
    /\ UNCHANGED <<path_str, processVars, watchVars, sessionVars, otherVars>>

ClassifySpec == ClassifyInit /\ [][classify_event]_vars

\* -------------------------------------------- watcher/mod.rs: start_watcher
\* The tests of start_watcher, in the order of the code: the directory and
\* the feature whose flag guards it.
WatchOrder ==
    << [dir |-> "project_dir", flag |-> "sessions"],
       [dir |-> "teams_dir", flag |-> "teams"],
       [dir |-> "tasks_dir", flag |-> "teams"],
       [dir |-> "todos_dir", flag |-> "todos"],
       [dir |-> "plans_dir", flag |-> "plans"],
       [dir |-> "git_dir", flag |-> "git"] >>

\* Mutant of WatchOne: the existence of the directory is not tested.
WatchOneUnchecked(st, w) ==
    IF tabs_config[w.flag]
    THEN [st EXCEPT !.calls = @ \cup {w.dir},
                    !.watched = IF w.dir \in watch_err THEN @ ELSE @ \cup {w.dir}]
    ELSE st

\* Mutant of WatchOne: a failed registration ends start_watcher with the
\* error (`watcher.watch(..)?`).
WatchOneOrAbort(st, w) ==
    IF ~st.aborted /\ tabs_config[w.flag] /\ dir_exists[w.dir]
    THEN [st EXCEPT !.calls = @ \cup {w.dir},
                    !.watched = IF w.dir \in watch_err THEN @ ELSE @ \cup {w.dir},
                    !.aborted = w.dir \in watch_err]
    ELSE st

\* `if <flag> && <dir>.exists() { let _ = watcher.watch(&<dir>, ..); }`
\* st = [calls, watched, aborted]: the result of watch is dropped.
WatchOne(st, w) ==
    IF tabs_config[w.flag] /\ dir_exists[w.dir]
    THEN [st EXCEPT !.calls = @ \cup {w.dir},
                    !.watched = IF w.dir \in watch_err THEN @ ELSE @ \cup {w.dir}]
    ELSE st

RECURSIVE WatchAll(_, _)
WatchAll(st, order) ==
    IF order = <<>> THEN st ELSE WatchAll(WatchOne(st, Head(order)), Tail(order))

\* watcher::start_watcher, called once by run_app before the loop.
start_watcher ==
    /\ watcher = "none"
    /\ IF debouncer_err
       THEN /\ watcher' = "failed"
            /\ UNCHANGED <<watch_calls, watched>>
       ELSE LET st == WatchAll([calls |-> {}, watched |-> {}, aborted |-> FALSE],
                               WatchOrder)
            IN  /\ watcher' = IF st.aborted THEN "failed" ELSE "running"
                /\ watch_calls' = st.calls
                /\ watched' = st.watched
    /\ UNCHANGED <<tabs_config, dir_exists, watch_err, debouncer_err, now,
                   pending, emitted, event_tx, raw, processVars, classifyVars,
                   sessionVars, otherVars>>

\* Most directories whose registration fails.
MaxWatchErr == 1

\* run_app calls start_watcher with any flags, any directories present, and
\* registrations that may fail.
StartInit ==
    /\ ProcessInit
    /\ OtherIdle
    /\ ClassifyIdle
    /\ SessionIdle
    /\ tabs_config \in [Features -> BOOLEAN]
    /\ dir_exists \in [Dirs -> BOOLEAN]
    /\ watch_err \in {e \in SUBSET Dirs : Cardinality(e) <= MaxWatchErr}
    /\ debouncer_err \in BOOLEAN
    /\ watcher = "none"
    /\ watch_calls = {}
    /\ watched = {}
    /\ now = 0
    /\ pending = [p \in EventPaths |-> NoEntry]
    /\ emitted = <<>>
    /\ event_tx = <<>>
    /\ raw = [p \in EventPaths |-> [count |-> 0, first |-> 0, last |-> 0]]

StartSpec == StartInit /\ [][start_watcher]_vars

\* ------------------------------------- watcher/mod.rs: debouncer and callback
\* config.rs: DEBOUNCE_MS = 200, here in ticks of the debouncer thread, which
\* looks at its map every quarter of the timeout.
DEBOUNCE_MS == 4

\* The time the model runs for, in ticks.
MaxTime == 6
\* Most raw events on one path.
MaxRaw == 3
\* Most errors the debouncer reports.
MaxErrors == 1

\* DebouncedEvent { path, kind }, and an error of the debouncer.
DebouncedEvent(path, kind) == [path |-> path, kind |-> kind]
DebouncerErr == [path |-> <<>>, kind |-> "Err"]

\* Mutant of ForwardEvents: every debounced event is forwarded, whatever
\* its kind.
RECURSIVE ForwardEventsOfAnyKind(_)
ForwardEventsOfAnyKind(events) ==
    IF events = <<>> THEN <<>>
    ELSE LET event == Head(events)
             found == classify_change(event.path, encoded_project, event.path)
         IN  (IF found = None THEN <<>> ELSE <<found>>)
                 \o ForwardEventsOfAnyKind(Tail(events))

\* The `for event in events` loop of the callback: the messages it sends.
RECURSIVE ForwardEvents(_)
ForwardEvents(events) ==
    IF events = <<>> THEN <<>>
    ELSE LET event == Head(events)
             found == classify_change(event.path, encoded_project, event.path)
         IN  (IF event.kind # "Any" \/ found = None THEN <<>> ELSE <<found>>)
                 \o ForwardEvents(Tail(events))

\* A raw filesystem event on a path of a watched directory reaches the
\* debouncer: a new entry, or the entry's update time is set.
RawEvent(path) ==
    /\ watcher = "running"
    /\ EventDir(path) \in watched
    /\ raw[path].count < MaxRaw
    /\ pending' = [pending EXCEPT ![path] =
                      IF @ = NoEntry THEN [insert |-> now, update |-> now]
                      ELSE [@ EXCEPT !.update = now]]
    /\ raw' = [raw EXCEPT ![path] =
                  [count |-> @.count + 1,
                   first |-> IF @.count = 0 THEN now ELSE @.first,
                   last |-> now]]
    /\ UNCHANGED <<tabs_config, dir_exists, watch_err, debouncer_err, watcher,
                   watch_calls, watched, now, emitted, event_tx, processVars,
                   classifyVars, sessionVars, otherVars>>

\* The sequences that hold every element of a set once.
Orders(set) ==
    {seq \in [1..Cardinality(set) -> set] : \A e \in set : \E i \in DOMAIN seq : seq[i] = e}

\* A tick of the debouncer thread: an entry not updated for the timeout is
\* emitted as Any and removed; an entry older than the timeout that is still
\* being updated is emitted as AnyContinuous and kept.  The batch, in the
\* order the map yields it, goes to the callback as Ok(events).
DebouncerTick ==
    /\ watcher = "running"
    /\ now < MaxTime
    /\ now' = now + 1
    /\ LET live == {path \in EventPaths : pending[path] # NoEntry}
           expired == {path \in live : now' - pending[path].update >= DEBOUNCE_MS}
           continuous == {path \in live \ expired :
                             now' - pending[path].insert >= DEBOUNCE_MS}
           events == {DebouncedEvent(path, "Any") : path \in expired}
                         \cup {DebouncedEvent(path, "AnyContinuous") : path \in continuous}
       IN  /\ pending' = [path \in EventPaths |->
                             IF path \in expired THEN NoEntry ELSE pending[path]]
           /\ \E batch \in Orders(events) :
                 /\ emitted' = emitted \o batch
                 /\ event_tx' = event_tx \o ForwardEvents(batch)
    /\ UNCHANGED <<tabs_config, dir_exists, watch_err, debouncer_err, watcher,
                   watch_calls, watched, raw, processVars, classifyVars,
                   sessionVars, otherVars>>

\* The debouncer reports an error: the callback's `Err(_) => return`.
DebouncerError ==
    /\ watcher = "running"
    /\ Cardinality({i \in 1..Len(emitted) : emitted[i] = DebouncerErr}) < MaxErrors
    /\ emitted' = Append(emitted, DebouncerErr)
    /\ UNCHANGED <<tabs_config, dir_exists, watch_err, debouncer_err, watcher,
                   watch_calls, watched, now, pending, event_tx, raw,
                   processVars, classifyVars, sessionVars, otherVars>>

DebounceNext ==
    \/ start_watcher
    \/ \E path \in EventPaths : RawEvent(path)
    \/ DebouncerTick
    \/ DebouncerError

DebounceSpec == Init /\ [][DebounceNext]_vars

\* ------------------------------------------------- opening a transcript
\* A session is listed and selected; its file holds any lines or cannot be
\* opened; .assoc.toml sets a tail budget or none.
TailInit ==
    /\ ProcessInit
    /\ OtherIdle
    /\ ClassifyIdle
    /\ WatchIdle
    /\ tail_lines \in {<<>>} \cup {<<n>> : n \in 1..MaxTailLines}
    /\ sessions \in {<<>>, <<"s1">>}
    /\ session_list_index = 0
    /\ loaded_session_id = "None"
    /\ transcript_reader = with_tail_lines(project_config_tail_lines)
    /\ transcript_items = <<>>
    /\ transcript_scroll = 0
    /\ follow_mode \in BOOLEAN
    /\ subagents = <<>>
    /\ subagent_index = 0
    /\ subagent_transcript = <<>>
    /\ subagent_reader = with_tail_lines(project_config_tail_lines)
    /\ viewing_subagent = FALSE
    /\ files \in [SessionIds -> Files \cup {Missing}]
    /\ tail_unit \in {"lines", "items"}
    /\ read_result = "None"
    /\ unchanged_reads = 0

TailNext ==
    \E found \in {<<>>, <<"a1">>} :
        /\ load_selected_transcript(found)
        /\ UNCHANGED <<processes, process_children, process_index, process_rx,
                       next_process_id, chan, osVars, exit_reported, kill_sent,
                       injected, classifyVars, watchVars, otherVars>>

TailSpec == TailInit /\ [][TailNext]_vars

\* -------------------------------------------------- polling a transcript
\* The session's file as its writer, another process, changes it.
WriteFile(id, file) ==
    /\ files' = [files EXCEPT ![id] = file]
    /\ unchanged_reads' = 0
    /\ UNCHANGED <<sessions, session_list_index, loaded_session_id,
                   transcript_reader, transcript_items, transcript_scroll,
                   follow_mode, subagents, subagent_index, subagent_transcript,
                   subagent_reader, viewing_subagent, tail_lines, tail_unit,
                   read_result>>

\* The file exists and its last line is whole.
Flushed(file) ==
    IF file = Missing THEN FALSE
    ELSE IF file = <<>> THEN TRUE
    ELSE file[Len(file)] # Fragment

\* Most lines of a file that is polled.
MaxPollLines == 3

\* The writer appends a whole line.
WriterAppend(id) ==
    /\ Flushed(files[id])
    /\ Len(files[id]) < MaxPollLines
    /\ \E line \in LineShapes : WriteFile(id, Append(files[id], line))

\* The writer's line reaches the file in two parts.
WriterFlushPart(id) ==
    /\ Flushed(files[id])
    /\ Len(files[id]) < MaxPollLines
    /\ WriteFile(id, Append(files[id], Fragment))

WriterFlushRest(id) ==
    /\ files[id] # Missing
    /\ ~Flushed(files[id])
    /\ \E line \in LineShapes :
           WriteFile(id, [files[id] EXCEPT ![Len(files[id])] = line])

\* The file is cut to its first n lines.
WriterTruncate(id) ==
    /\ files[id] # Missing
    /\ \E n \in 0..(Len(files[id]) - 1) : WriteFile(id, SubSeq(files[id], 1, n))

\* The file is removed.
WriterRemove(id) ==
    /\ files[id] # Missing
    /\ WriteFile(id, Missing)

\* A listed session whose file does not exist yet or is empty.
PollInit ==
    /\ ProcessInit
    /\ OtherIdle
    /\ ClassifyIdle
    /\ WatchIdle
    /\ tail_lines \in {<<>>, <<1>>}
    /\ sessions = <<"s1">>
    /\ session_list_index = 0
    /\ loaded_session_id = "None"
    /\ transcript_reader = with_tail_lines(project_config_tail_lines)
    /\ transcript_items = <<>>
    /\ transcript_scroll = 0
    /\ follow_mode \in BOOLEAN
    /\ subagents = <<>>
    /\ subagent_index = 0
    /\ subagent_transcript = <<>>
    /\ subagent_reader = with_tail_lines(project_config_tail_lines)
    /\ viewing_subagent = FALSE
    /\ files \in [SessionIds -> {<<>>, Missing}]
    /\ tail_unit \in {"lines", "items"}
    /\ read_result = "None"
    /\ unchanged_reads = 0

SessionFrame ==
    UNCHANGED <<processes, process_children, process_index, process_rx,
                next_process_id, chan, osVars, exit_reported, kill_sent,
                injected, classifyVars, watchVars, otherVars>>

PollNext ==
    \/ load_selected_transcript(<<>>) /\ SessionFrame
    \/ refresh_transcript /\ SessionFrame
    \/ \E id \in SessionIds :
          /\ \/ WriterAppend(id)
             \/ WriterFlushPart(id)
             \/ WriterFlushRest(id)
             \/ WriterTruncate(id)
             \/ WriterRemove(id)
          /\ UNCHANGED <<processVars, classifyVars, watchVars, otherVars>>

PollSpec == PollInit /\ [][PollNext]_vars

\* ------------------------------------------------ handling file changes
\* The changes the watcher sends.
FileChanges ==
    {SessionIndex, Transcript(<<>>), SubagentTranscript(<<>>),
     TeamConfig(<<"alpha">>), TeamInbox(<<"alpha">>), TaskFile(<<"alpha">>),
     TodoFile(<<>>), GitChange, PlanFile(<<>>)}

\* App::new with the files of every tab on disk, each list loading or
\* failing to load.
ChangeInit ==
    /\ ProcessInit
    /\ ClassifyIdle
    /\ WatchIdle
    /\ LoopIdle
    /\ ParseIdle
    /\ index \in {IndexErr, <<>>, <<"s1">>}
    /\ disk \in {[l \in Lists |-> 1], [l \in Lists |-> LoadErr],
                 [l \in Lists |-> IF l = "teams" THEN 0 ELSE 1]}
    /\ teams = 0
    /\ tasks = 0
    /\ inbox_messages = 0
    /\ agent_statuses = <<>>
    /\ todo_files = 0
    /\ plan_files = 0
    /\ git_status = 0
    /\ subagent_file \in {<<TranscriptEnvelope("user", Text(1), 0)>>, Missing}
    /\ tail_lines = <<>>
    /\ sessions = <<>>
    /\ session_list_index = 0
    /\ loaded_session_id = "None"
    /\ transcript_reader = with_tail_lines(project_config_tail_lines)
    /\ transcript_items = <<>>
    /\ transcript_scroll = 0
    /\ follow_mode = TRUE
    /\ subagents = <<>>
    /\ subagent_index = 0
    /\ subagent_transcript = <<>>
    /\ subagent_reader = with_tail_lines(project_config_tail_lines)
    /\ viewing_subagent = FALSE
    /\ files \in [SessionIds -> {<<TranscriptEnvelope("user", Text(1), 0)>>, Missing}]
    /\ tail_unit = "lines"
    /\ read_result = "None"
    /\ unchanged_reads = 0

\* Most lines of a session's file while changes are handled.
MaxChangeLines == 2

\* What handle_file_change, a file-change handler, leaves alone.
ChangeFrame ==
    UNCHANGED <<processes, process_children, process_index, process_rx,
                next_process_id, chan, osVars, exit_reported, kill_sent,
                injected, classifyVars, watchVars, parseVars>>

ChangeNext ==
    \/ \E file_change \in FileChanges :
          \E found \in IF file_change = SessionIndex THEN {<<>>, <<"a1">>} ELSE {<<>>},
             diff_fails \in IF file_change = GitChange THEN BOOLEAN ELSE {FALSE} :
             /\ handle_file_change(file_change, found, diff_fails)
             /\ ChangeFrame
             /\ UNCHANGED loopVars
    \/ cycle_subagent /\ ChangeFrame /\ UNCHANGED otherVars
    \/ \E id \in SessionIds :
          /\ Len(files[id]) < MaxChangeLines
          /\ WriterAppend(id)
          /\ UNCHANGED <<processVars, classifyVars, watchVars, otherVars>>

ChangeSpec == ChangeInit /\ [][ChangeNext]_vars

\* -------------------------------------------------------------- run_app
\* config.rs: TICK_RATE_MS = 250 ms, here two units of time.
TICK_RATE_MS == 2
\* run_app: tick_rate, project_config.tick_rate() with nothing configured.
tick_rate == TICK_RATE_MS
\* run_app: poll_interval = 60 s, scaled to two ticks.
poll_interval == 4
\* The time at which the model stops.
LoopMaxTime == 8
\* Most AppEvents sent to the loop.
MaxEvents == 2

\* What ct_event::poll and read produce within the timeout: nothing, a key
\* press, the press of the quit key, a key event that is not a press, or an
\* event that is not a key event.
Keys == {"none", "press", "quit", "release", "other"}

\* event.rs: the AppEvents.  Those whose handler (handle_send_complete and
\* the handle_.._loaded of the background loads) changes nothing of the
\* state modelled here are one event.
FileChanged(file_change) == [name |-> "FileChanged", arg |-> file_change]
PaneSendComplete == [name |-> "PaneSendComplete", arg |-> <<>>]
LoopEvents == {FileChanged(TodoFile(<<>>)), PaneSendComplete}

\* Duration::saturating_sub
saturating_sub(a, b) == IF a > b THEN a - b ELSE 0

\* run_app: the timeout handed to ct_event::poll, without the time since the
\* last tick.
timeout_of_tick_rate == tick_rate

\* run_app: let timeout = tick_rate.saturating_sub(last_tick.elapsed())
timeout == saturating_sub(tick_rate, time - last_tick)

\* App::mark_dirty
mark_dirty == dirty' = TRUE

\* handle_key, as far as the loop depends on it: the quit key sets
\* should_quit.
handle_key(key) == should_quit' = (should_quit \/ key = "quit")

\* What no step of the loop but a file change and the tick touches.
AppFrame == /\ ChangeFrame
            /\ UNCHANGED <<last_error, sessionVars, featureVars>>

\* run_app, a draw block that clears the flag without drawing.
DrawWithoutDrawing ==
    /\ drew' = FALSE
    /\ dirty' = FALSE
    /\ UNCHANGED mutated

\* run_app: if app.dirty { terminal.draw(..)?; app.dirty = false; }
DrawIfDirty ==
    /\ drew' = dirty
    /\ dirty' = FALSE
    /\ mutated' = (mutated /\ ~dirty)

\* run_app, the start of an iteration.
LoopDraw ==
    /\ pc = "draw"
    /\ DrawIfDirty
    /\ pc' = "input"
    /\ AppFrame
    /\ UNCHANGED <<should_quit, time, last_tick, event_rx, poll_enabled,
                   can_fetch, last_poll, waited, sent, received, queued,
                   last_attempt, polled>>

\* run_app, a key arm that handles the key and leaves the flag alone.
KeyArmLeavesFlag(key) ==
    IF key \in {"press", "quit"}
    THEN /\ handle_key(key)
         /\ mutated' = TRUE
         /\ UNCHANGED dirty
    ELSE UNCHANGED <<should_quit, dirty, mutated>>

\* run_app: if let Event::Key(key) = read()? { if key.kind == Press {
\* handle_key(&mut app, key); app.mark_dirty(); } }
KeyArm(key) ==
    IF key \in {"press", "quit"}
    THEN /\ handle_key(key)
         /\ mark_dirty
         /\ mutated' = TRUE
    ELSE UNCHANGED <<should_quit, dirty, mutated>>

\* run_app: the wait for input.  ct_event::poll(timeout) returns true as
\* soon as an event is there and false once the timeout has passed.
LoopInput ==
    /\ pc = "input"
    /\ \E key \in Keys, w \in 0..timeout :
          /\ key = "none" => w = timeout
          /\ time + w <= LoopMaxTime
          /\ time' = time + w
          /\ waited' = w
          /\ KeyArm(key)
    /\ queued' = sent
    /\ pc' = "drain"
    /\ AppFrame
    /\ UNCHANGED <<last_tick, event_rx, poll_enabled, can_fetch, last_poll,
                   drew, sent, received, last_attempt, polled>>

\* run_app: the match on the event received.
Dispatch(evt) ==
    IF evt.name = "FileChanged"
    THEN \E found \in IF evt.arg = SessionIndex THEN {<<>>, <<"a1">>} ELSE {<<>>},
            diff_fails \in IF evt.arg = GitChange THEN BOOLEAN ELSE {FALSE} :
            handle_file_change(evt.arg, found, diff_fails)
    ELSE UNCHANGED <<last_error, sessionVars, featureVars>>

\* rx.try_recv taking the newest message.
try_recv_newest == event_rx[Len(event_rx)]

\* rx.try_recv on a queue that is not empty.
try_recv == Head(event_rx)

\* run_app, an if in the place of the while: on to the tick after a message.
AfterRecvOnce == "tick"

\* run_app: while let Ok(evt) = rx.try_recv(): after a message, the next.
AfterRecv == "drain"

\* run_app: one turn of the while loop over rx.try_recv().  A handler takes
\* up to one unit of time.
LoopRecv ==
    /\ pc = "drain"
    /\ IF event_rx # <<>>
       THEN /\ event_rx' = Tail(event_rx)
            /\ received' = try_recv.seq
            /\ Dispatch(try_recv.evt)
            /\ mark_dirty
            /\ mutated' = TRUE
            /\ \E d \in 0..1 : /\ time + d <= LoopMaxTime
                               /\ time' = time + d
            /\ pc' = AfterRecv
       ELSE /\ pc' = "tick"
            /\ UNCHANGED <<event_rx, received, dirty, mutated, time,
                           last_error, sessionVars, featureVars>>
    /\ ChangeFrame
    /\ UNCHANGED <<should_quit, last_tick, poll_enabled, can_fetch, last_poll,
                   drew, waited, sent, queued, last_attempt, polled>>

\* run_app: if app.should_quit { return Ok(()) }, else the next iteration.
AfterTick == IF should_quit THEN "done" ELSE "draw"

\* The x_last_poll that load_github_prs, load_github_issues,
\* load_jira_issues and load_linear_issues leave when the request succeeds
\* (ok) or fails.
load_tracker(t, ok) ==
    IF t = "linear" THEN time
    ELSE IF ok THEN time ELSE last_poll[t]

\* The last_error the four loads leave, called in the order of the tick.
load_errors(asked, ok) ==
    IF "linear" \in asked /\ ~ok["linear"] THEN "Linear"
    ELSE IF "jira" \in asked /\ ~ok["jira"] THEN "Jira"
    ELSE IF "github_issues" \in asked /\ ~ok["github_issues"] THEN "Issues"
    ELSE IF "github_prs" \in asked /\ ~ok["github_prs"] THEN "GitHub"
    ELSE last_error

\* run_app: the tick, up to the polls of the trackers.
LoopTick ==
    /\ pc = "tick"
    /\ IF time - last_tick >= tick_rate
       THEN LET due == {t \in Trackers :
                           /\ poll_enabled[t]
                           /\ time - last_poll[t] >= poll_interval}
                asked == {t \in due : can_fetch[t]}
            IN  /\ last_tick' = time
                /\ \E ok \in {f \in [Trackers -> BOOLEAN] :
                                 \A t \in Trackers \ asked : f[t]} :
                      /\ last_poll' = [t \in Trackers |->
                                          IF t \in asked
                                          THEN load_tracker(t, ok[t])
                                          ELSE last_poll[t]]
                      /\ last_error' = load_errors(asked, ok)
                /\ last_attempt' = [t \in Trackers |->
                                       IF t \in asked THEN time
                                       ELSE last_attempt[t]]
                /\ polled' = asked
                /\ pc' = "procs"
       ELSE /\ pc' = AfterTick
            /\ polled' = {}
            /\ UNCHANGED <<last_tick, last_poll, last_attempt, last_error>>
    /\ ChangeFrame
    /\ UNCHANGED <<sessionVars, featureVars>>
    /\ UNCHANGED <<dirty, should_quit, time, event_rx, poll_enabled, can_fetch,
                   drew, mutated, waited, sent, received, queued>>

\* run_app: the rest of the tick: app.poll_process_output();
\* app.clear_stale_send_status(); app.mark_dirty();
LoopProcs ==
    /\ pc = "procs"
    /\ poll_process_output
    /\ mark_dirty
    /\ pc' = AfterTick
    /\ UNCHANGED <<classifyVars, watchVars, sessionVars, featureVars, parseVars>>
    /\ UNCHANGED <<should_quit, time, last_tick, event_rx, poll_enabled,
                   can_fetch, last_poll, drew, mutated, waited, sent, received,
                   queued, last_attempt, polled>>

\* A thread holding a clone of tx (the watcher's callback, a background
\* load) sends an event.
LoopSend(evt) ==
    /\ pc # "done"
    /\ sent < MaxEvents
    /\ event_rx' = Append(event_rx, [seq |-> sent + 1, evt |-> evt])
    /\ sent' = sent + 1
    /\ AppFrame
    /\ UNCHANGED <<pc, dirty, should_quit, time, last_tick, poll_enabled,
                   can_fetch, last_poll, drew, mutated, waited, received,
                   queued, last_attempt>>
    /\ UNCHANGED polled

\* run_app at the top of its loop: App::new and load_all are done, a todo
\* file is on disk, and at most one tracker is configured.
LoopInit ==
    /\ ProcessInit
    /\ ClassifyIdle
    /\ WatchIdle
    /\ SessionIdle
    /\ ParseIdle
    /\ index = <<>>
    /\ disk = [l \in Lists |-> IF l = "todos" THEN 1 ELSE 0]
    /\ teams = 0
    /\ tasks = 0
    /\ inbox_messages = 0
    /\ agent_statuses = <<>>
    /\ todo_files = 0
    /\ plan_files = 0
    /\ git_status = 0
    /\ subagent_file = <<>>
    /\ pc = "draw"
    /\ dirty \in BOOLEAN
    /\ should_quit = FALSE
    /\ time = 0
    /\ last_tick = 0
    /\ event_rx = <<>>
    /\ \E on \in {{}} \cup {{t} : t \in Trackers} :
          poll_enabled = [t \in Trackers |-> t \in on]
    /\ can_fetch \in {f \in [Trackers -> BOOLEAN] :
                         /\ \A t \in Trackers : f[t] => poll_enabled[t]
                         /\ poll_enabled["jira"] => f["jira"]}
    /\ last_poll = [t \in Trackers |-> 0]
    /\ drew = FALSE
    /\ mutated = FALSE
    /\ waited = 0
    /\ sent = 0
    /\ received = 0
    /\ queued = 0
    /\ last_attempt = [t \in Trackers |-> NoAttempt]
    /\ polled = {}

LoopNext ==
    \/ LoopDraw
    \/ LoopInput
    \/ LoopRecv
    \/ LoopTick
    \/ LoopProcs
    \/ \E evt \in LoopEvents : LoopSend(evt)

LoopSpec == LoopInit /\ [][LoopNext]_vars

\* The steps of the main loop, of the children and of the reader threads,
\* all but the spawn.
Run ==
    \/ poll_process_output /\ UNCHANGED restVars
    \/ kill_selected_process /\ UNCHANGED restVars
    \/ select_next /\ UNCHANGED restVars
    \/ select_prev /\ UNCHANGED restVars
    \/ \E id \in Ids, s \in Streams : ChildWrite(id, s) /\ UNCHANGED restVars
    \/ \E id \in Ids : ChildExit(id) /\ UNCHANGED restVars
    \/ \E id \in Ids, s \in Streams : ReaderSend(id, s) /\ UNCHANGED restVars
    \/ \E id \in Ids, s \in Streams : ReaderFail(id, s) /\ UNCHANGED restVars
    \/ \E id \in Ids, s \in Streams : ReaderEof(id, s) /\ UNCHANGED restVars
    \/ \E id \in Ids : ReportExit(id) /\ UNCHANGED restVars

\* Several processes, few lines.
Next ==
    \/ spawn_claude_process(MaxProcs, MaxTotalLines) /\ UNCHANGED restVars
    \/ Run

Spec == Init /\ [][Next]_vars

\* The ids SoloSpec hands out.
SoloIds == {1}

\* One process, writing up to MaxLines lines on each stream.
SoloNext ==
    \/ spawn_claude_process(Cardinality(SoloIds), MaxLines + MaxLines)
          /\ UNCHANGED restVars
    \/ Run

SoloSpec == Init /\ [][SoloNext]_vars

\* One step of the child process id.
ChildStep(id) == ChildExit(id) \/ \E s \in Streams : ChildWrite(id, s)

\* One step of the reader thread of stream s of process id that is not a
\* failed read.
ReaderStep(id, s) == ReaderSend(id, s) \/ ReaderEof(id, s)

\* SoloSpec under fair scheduling: the main loop ticks, a child that can
\* write or exit does so, and every reader thread runs.  The readers are
\* strongly fair because only the model's bound MaxQueue ever disables a
\* send: the real channel is unbounded.
Fairness ==
    /\ WF_vars(poll_process_output /\ UNCHANGED restVars)
    /\ \A id \in SoloIds : WF_vars(ChildStep(id) /\ UNCHANGED restVars)
    /\ \A id \in SoloIds, s \in Streams :
           SF_vars(ReaderStep(id, s) /\ UNCHANGED restVars)

LiveSoloSpec == Init /\ [][SoloNext]_vars /\ Fairness

\* Several processes with out-of-band messages on the channel.
HandlerNext ==
    \/ spawn_claude_process(MaxProcs, 1) /\ UNCHANGED restVars
    \/ Run
    \/ \E msg \in OutOfBandMsgs : Inject(msg) /\ UNCHANGED restVars

HandlerSpec == Init /\ [][HandlerNext]_vars

\* ----------------------------------- file changes and process events
\* The time at which the model of the loop with a process stops.
MixMaxTime == 2

\* The events sent to the loop while a process runs.
MixEvents == {FileChanged(TodoFile(<<>>)), FileChanged(SessionIndex)}

\* run_app at the top of its loop, no tracker configured, one session with
\* its transcript on disk, and a todo file that loads or fails to load.
MixInit ==
    /\ ProcessInit
    /\ ClassifyIdle
    /\ WatchIdle
    /\ SessionIdle
    /\ ParseIdle
    /\ index = <<"s1">>
    /\ disk \in {[l \in Lists |-> IF l = "todos" THEN v ELSE 0] : v \in {1, LoadErr}}
    /\ teams = 0
    /\ tasks = 0
    /\ inbox_messages = 0
    /\ agent_statuses = <<>>
    /\ todo_files = 0
    /\ plan_files = 0
    /\ git_status = 0
    /\ subagent_file = <<>>
    /\ pc = "draw"
    /\ dirty = TRUE
    /\ should_quit = FALSE
    /\ time = 0
    /\ last_tick = 0
    /\ event_rx = <<>>
    /\ poll_enabled = [t \in Trackers |-> FALSE]
    /\ can_fetch = [t \in Trackers |-> FALSE]
    /\ last_poll = [t \in Trackers |-> 0]
    /\ drew = FALSE
    /\ mutated = FALSE
    /\ waited = 0
    /\ sent = 0
    /\ received = 0
    /\ queued = 0
    /\ last_attempt = [t \in Trackers |-> NoAttempt]
    /\ polled = {}

\* A thread other than the loop's runs: the child, a reader thread or a
\* sender of file changes.  These are scheduled while the loop waits for
\* input: until its next wait the loop reads nothing that they write but
\* the two channels, which keep what was sent.
Others ==
    \/ \E evt \in MixEvents : LoopSend(evt)
    \/ \E id \in SoloIds, s \in Streams : ChildWrite(id, s) /\ UNCHANGED restVars
    \/ \E id \in SoloIds : ChildExit(id) /\ UNCHANGED restVars
    \/ \E id \in SoloIds, s \in Streams : ReaderSend(id, s) /\ UNCHANGED restVars
    \/ \E id \in SoloIds, s \in Streams : ReaderEof(id, s) /\ UNCHANGED restVars
    \/ \E id \in SoloIds : ReportExit(id) /\ UNCHANGED restVars

\* The loop, a key that spawns a process of one line, and the other threads.
MixNext ==
    \/ LoopDraw
    \/ LoopInput /\ time' <= MixMaxTime
    \/ LoopRecv /\ time' <= MixMaxTime
    \/ LoopTick
    \/ LoopProcs
    \/ /\ pc = "input"
       /\ spawn_claude_process(Cardinality(SoloIds), 1)
       /\ UNCHANGED restVars
    \/ pc = "input" /\ Others

MixSpec == MixInit /\ [][MixNext]_vars

\* ------------------------------------------ the end of a reader thread
\* Most lines the child writes while run_app may return.
MaxReaderLines == 2

\* run_app returns (should_quit): the App is dropped and with it process_rx,
\* the receiving end of the channel of the reader threads.
run_app_returns ==
    /\ pc # "done"
    /\ pc' = "done"
    /\ UNCHANGED <<processVars, classifyVars, watchVars, sessionVars, featureVars,
                   parseVars>>
    /\ UNCHANGED <<dirty, should_quit, time, last_tick, event_rx, poll_enabled,
                   can_fetch, last_poll, drew, mutated, waited, sent, received,
                   queued, last_attempt, polled>>

\* A reader thread that goes on reading when its send fails.
ReaderSendErrGoesOn(id, s) ==
    /\ pc = "done"
    /\ reader[id][s] = "running"
    /\ pipe[id][s] # <<>>
    /\ pipe' = [pipe EXCEPT ![id][s] = Tail(@)]
    /\ UNCHANGED <<appVars, chan, os_state, os_success, plan, written, reader,
                   exit_reported, kill_sent, injected>>

\* Reader thread, `if tx.send(..).is_err() { break; }`: the receiver is
\* dropped, the line read is lost and the thread ends, dropping its pipe end.
ReaderSendErr(id, s) ==
    /\ pc = "done"
    /\ reader[id][s] = "running"
    /\ pipe[id][s] # <<>>
    /\ reader' = [reader EXCEPT ![id][s] = "failed"]
    /\ pipe' = [pipe EXCEPT ![id][s] = <<>>]
    /\ UNCHANGED <<appVars, chan, os_state, os_success, plan, written,
                   exit_reported, kill_sent, injected>>

\* One step of the child or of one of its reader threads.
ChildOrReader(id) ==
    \/ \E s \in Streams : ChildWrite(id, s)
    \/ ChildExit(id)
    \/ \E s \in Streams : pc # "done" /\ ReaderSend(id, s)
    \/ \E s \in Streams : ReaderSendErr(id, s)
    \/ \E s \in Streams : ReaderFail(id, s)
    \/ \E s \in Streams : ReaderEof(id, s)

\* The main loop while it runs, the child and its reader threads, and the
\* return of run_app.
ReaderNext ==
    \/ /\ pc # "done"
       /\ \/ spawn_claude_process(Cardinality(SoloIds), MaxReaderLines)
          \/ poll_process_output
          \/ kill_selected_process
       /\ UNCHANGED restVars
    \/ run_app_returns
    \/ \E id \in SoloIds : ChildOrReader(id) /\ UNCHANGED restVars

\* The main loop ticks while it runs, and the child and each reader thread
\* get to run.  A reader is strongly fair because the model's bound MaxQueue
\* disables its send now and then.
ReaderFairness ==
    /\ WF_vars(pc # "done" /\ poll_process_output /\ UNCHANGED restVars)
    /\ \A id \in SoloIds : WF_vars(ChildStep(id) /\ UNCHANGED restVars)
    /\ \A id \in SoloIds, s \in Streams :
          SF_vars(/\ \/ pc # "done" /\ ReaderSend(id, s)
                     \/ ReaderSendErr(id, s)
                     \/ ReaderEof(id, s)
                  /\ UNCHANGED restVars)

ReaderSpec == Init /\ [][ReaderNext]_vars /\ ReaderFairness

\* ------------------------------------------------ parsing one envelope
\* The most segments of a message.
MaxBlocks == 2

\* The segments of a message: an empty text, two texts, a tool invocation,
\* a tool result and a segment of an unknown type.
Segments ==
    {ContentBlock("text", 0), ContentBlock("text", 1), ContentBlock("text", 2),
     ContentBlock("tool_use", 3), ContentBlock("tool_result", 4),
     ContentBlock("other", 0)}

\* The sequences of at most n segments.
RECURSIVE SegmentSeqs(_)
SegmentSeqs(n) ==
    IF n = 0 THEN {<<>>}
    ELSE SegmentSeqs(n - 1) \cup
         {Append(blocks, block) : blocks \in SegmentSeqs(n - 1), block \in Segments}

\* The messages of an envelope: none, a plain string, a list of segments.
Messages ==
    {NoMessage, Text(0), Text(1)} \cup {Blocks(blocks) : blocks \in SegmentSeqs(MaxBlocks)}

\* The envelopes serde_json can produce: `type`, `message`, and the
\* flattened `content` field a progress envelope is read from.
Envelopes ==
    {TranscriptEnvelope(kind, message, content) :
        kind \in {"user", "assistant", "system", "progress", "summary"},
        message \in Messages,
        content \in {0, 5}}

ParseInit ==
    /\ ProcessInit
    /\ FeatureIdle
    /\ LoopIdle
    /\ WatchIdle
    /\ SessionIdle
    /\ path_str = "none"
    /\ change = Pending
    /\ parse_line \in Envelopes
    /\ parsed = NotParsed

\* The reader's `parse_envelope(&envelope)` on a line it has deserialized.
parse_one ==
    /\ parsed = NotParsed
    /\ parsed' = parse_envelope(parse_line)
    /\ UNCHANGED <<parse_line, processVars, classifyVars, watchVars, sessionVars,
                   featureVars, loopVars>>

ParseSpec == ParseInit /\ [][parse_one]_vars

\* ------------------------------------------------- browsing the sessions
\* Two sessions, and the files they are written to: one line each at
\* first, of a kind that tells them apart.
BrowseIds == {"s1", "s2"}
SessionLine(id) ==
    TranscriptEnvelope(IF id = "s1" THEN "user" ELSE "assistant", Text(1), 0)

\* Most lines of a session's file while the list is browsed.
MaxBrowseLines == 2

\* What sessions-index.json can hold, newest session first.
Indexes == {<<"s1">>, <<"s1", "s2">>, <<"s2", "s1">>}

\* What subagents::find_subagents finds.
Founds == {<<>>, <<"a1">>}

\* App::select_item on the Sessions tab, the list pane: the reload of the
\* selected transcript is forced.
select_item(found) ==
    IF sessions = <<>>
    THEN /\ loaded_session_id' = "None"
         /\ UNCHANGED <<sessions, session_list_index, transcript_reader,
                        transcript_items, transcript_scroll, follow_mode,
                        subagents, subagent_index, subagent_transcript,
                        subagent_reader, viewing_subagent, tail_lines, files,
                        tail_unit, read_result, unchanged_reads, last_error>>
    ELSE LET idx == Min(session_list_index, Len(sessions) - 1) + 1
             session_id == sessions[idx]
         IN  /\ OpenTranscript(session_id, "None", found)
             /\ last_error' = IF files[session_id] # Missing THEN last_error
                              ELSE "Transcript"
             /\ UNCHANGED <<sessions, session_list_index, follow_mode,
                            tail_lines, files, tail_unit, read_result>>

\* App::navigate_down on the Sessions tab, the list pane.
navigate_down ==
    /\ session_list_index' =
           IF sessions # <<>>
           THEN Min(session_list_index + 1, Len(sessions) - 1)
           ELSE session_list_index
    /\ UNCHANGED <<sessions, loaded_session_id, transcript_reader,
                   transcript_items, transcript_scroll, follow_mode, subagents,
                   subagent_index, subagent_transcript, subagent_reader,
                   viewing_subagent, tail_lines, files, tail_unit, read_result,
                   unchanged_reads, last_error>>

\* App::navigate_up on the Sessions tab, the list pane.
navigate_up ==
    /\ session_list_index' = saturating_sub(session_list_index, 1)
    /\ UNCHANGED <<sessions, loaded_session_id, transcript_reader,
                   transcript_items, transcript_scroll, follow_mode, subagents,
                   subagent_index, subagent_transcript, subagent_reader,
                   viewing_subagent, tail_lines, files, tail_unit, read_result,
                   unchanged_reads, last_error>>

\* App::toggle_follow
toggle_follow ==
    /\ follow_mode' = ~follow_mode
    /\ transcript_scroll' = IF ~follow_mode THEN Len(transcript_items)
                            ELSE transcript_scroll
    /\ UNCHANGED <<sessions, session_list_index, loaded_session_id,
                   transcript_reader, transcript_items, subagents,
                   subagent_index, subagent_transcript, subagent_reader,
                   viewing_subagent, tail_lines, files, tail_unit, read_result,
                   unchanged_reads, last_error>>

\* sessions-index.json is rewritten by its writer.
IndexWrite ==
    /\ \E new \in Indexes \ {index} : index' = new
    /\ UNCHANGED <<disk, teams, tasks, inbox_messages, agent_statuses,
                   todo_files, plan_files, git_status, subagent_file>>

\* The file of a session is created, grows by a line, or is removed.
BrowseWrite(id) ==
    \/ /\ files[id] = Missing
       /\ WriteFile(id, <<SessionLine(id)>>)
    \/ /\ files[id] # Missing
       /\ Len(files[id]) < MaxBrowseLines
       /\ WriteFile(id, Append(files[id], SessionLine(id)))
    \/ WriterRemove(id)

\* App::new and the project before its first session is listed.
BrowseInit ==
    /\ ProcessInit
    /\ ClassifyIdle
    /\ WatchIdle
    /\ LoopIdle
    /\ ParseIdle
    /\ index \in {<<>>, <<"s1", "s2">>}
    /\ disk = [l \in Lists |-> 1]
    /\ teams = 0
    /\ tasks = 0
    /\ inbox_messages = 0
    /\ agent_statuses = <<>>
    /\ todo_files = 0
    /\ plan_files = 0
    /\ git_status = 0
    /\ subagent_file = Missing
    /\ tail_lines = <<>>
    /\ sessions = <<>>
    /\ session_list_index = 0
    /\ loaded_session_id = "None"
    /\ transcript_reader = with_tail_lines(project_config_tail_lines)
    /\ transcript_items = <<>>
    /\ transcript_scroll = 0
    /\ follow_mode = TRUE
    /\ subagents = <<>>
    /\ subagent_index = 0
    /\ subagent_transcript = <<>>
    /\ subagent_reader = with_tail_lines(project_config_tail_lines)
    /\ viewing_subagent = FALSE
    /\ files \in [BrowseIds -> {<<SessionLine(id)>> : id \in BrowseIds} \cup {Missing}]
    /\ \A id \in BrowseIds : files[id] \in {<<SessionLine(id)>>, Missing}
    /\ tail_unit = "lines"
    /\ read_result = "None"
    /\ unchanged_reads = 0

\* What a key on the Sessions tab leaves alone.
BrowseFrame == ChangeFrame /\ UNCHANGED <<featureVars, loopVars>>

BrowseNext ==
    \/ \E file_change \in {SessionIndex, Transcript(<<>>)}, found \in Founds :
          /\ handle_file_change(file_change, found, FALSE)
          /\ ChangeFrame
          /\ UNCHANGED loopVars
    \/ \E found \in Founds : select_item(found) /\ BrowseFrame
    \/ navigate_down /\ BrowseFrame
    \/ navigate_up /\ BrowseFrame
    \/ toggle_follow /\ BrowseFrame
    \/ cycle_subagent /\ BrowseFrame
    \/ /\ IndexWrite
       /\ UNCHANGED <<processVars, classifyVars, watchVars, sessionVars, loopVars,
                      parseVars>>
    \/ \E id \in BrowseIds :
          /\ BrowseWrite(id)
          /\ UNCHANGED <<processVars, classifyVars, watchVars, otherVars>>

BrowseSpec == BrowseInit /\ [][BrowseNext]_vars

\* ------------------------------------------------- loads that fail
\* The changes whose refresh reports a failure of its load: the session
\* list, the transcript poll, teams, todos, git status and plans.
FailChanges ==
    {SessionIndex, Transcript(<<>>), TeamConfig(<<"alpha">>), TodoFile(<<>>),
     GitChange, PlanFile(<<>>)}

\* The lists whose load comes to fail and to succeed again.
FailLists == {"teams", "todos", "plans", "git"}

\* A list on disk becomes unreadable, or readable again.
DiskBreak(l) ==
    /\ disk' = [disk EXCEPT ![l] = IF @ = LoadErr THEN 1 ELSE LoadErr]
    /\ UNCHANGED <<index, teams, tasks, inbox_messages, agent_statuses,
                   todo_files, plan_files, git_status, subagent_file>>

\* sessions-index.json becomes unreadable, or readable again.
IndexBreak ==
    /\ index' = IF index = IndexErr THEN <<"s1">> ELSE IndexErr
    /\ UNCHANGED <<disk, teams, tasks, inbox_messages, agent_statuses,
                   todo_files, plan_files, git_status, subagent_file>>

\* App::new with one session listed on disk and every list readable.
FailInit ==
    /\ ProcessInit
    /\ ClassifyIdle
    /\ WatchIdle
    /\ LoopIdle
    /\ ParseIdle
    /\ SessionIdle
    /\ index = <<"s1">>
    /\ disk = [l \in Lists |-> 1]
    /\ teams = 0
    /\ tasks = 0
    /\ inbox_messages = 0
    /\ agent_statuses = <<>>
    /\ todo_files = 0
    /\ plan_files = 0
    /\ git_status = 0
    /\ subagent_file = Missing

FailNext ==
    \/ \E file_change \in FailChanges :
          /\ handle_file_change(file_change, <<>>, FALSE)
          /\ ChangeFrame
          /\ UNCHANGED loopVars
    \/ \E l \in FailLists :
          /\ DiskBreak(l)
          /\ UNCHANGED <<processVars, classifyVars, watchVars, sessionVars, loopVars,
                         parseVars>>
    \/ /\ IndexBreak
       /\ UNCHANGED <<processVars, classifyVars, watchVars, sessionVars, loopVars,
                      parseVars>>
    \/ /\ BrowseWrite("s1")
       /\ UNCHANGED <<processVars, classifyVars, watchVars, otherVars>>

FailSpec == FailInit /\ [][FailNext]_vars

\* ------------------------------------------------------------------ claims

Terminal == {"Completed", "Failed"}

NoRecord(procs, id) == \A j \in 1..Len(procs) : procs[j].id # id

\* Messages of stream s of process id that are queued on the channel.
Queued(id, s) ==
    Cardinality({k \in 1..Len(chan) : chan[k].kind = s /\ chan[k].id = id})

\* Lines of stream s of process id that poll_process_output has drained.
Drained(id, s) == written[id][s] - Len(pipe[id][s]) - Queued(id, s)

Buffer(rec, s) == IF s = "Stdout" THEN rec.output_lines ELSE rec.error_lines

Increasing(buf) == \A a, b \in 1..Len(buf) : a < b => buf[a] < buf[b]

C2_BuffersCapped ==
    \A i \in 1..Len(processes) :
        /\ Len(processes[i].output_lines) <= MAX_PROCESS_OUTPUT_LINES
        /\ Len(processes[i].error_lines) <= MAX_PROCESS_OUTPUT_LINES

\* C3: after n lines of a stream have been applied to a record, its buffer
\* holds exactly the last min(n, cap) of them, in arrival order.
C3_BufferIsLastLines ==
    \A i \in 1..Len(processes) : \A s \in Streams :
        LET id == processes[i].id
            n == Drained(id, s)
            k == Min(n, MAX_PROCESS_OUTPUT_LINES)
        IN  reader[id][s] # "failed"
                => Buffer(processes[i], s) = [j \in 1..k |-> n - k + j]

\* Lines of stream s the record of process id holds.
Delivered(id, s) ==
    IF NoRecord(processes, id) THEN 0
    ELSE Len(Buffer(processes[FindProc(processes, id)], s))

\* Process id has come to rest: the child has exited, both readers have
\* ended and none of its lines is queued.
Quiescent(id) ==
    /\ os_state[id] = "exited"
    /\ \A s \in Streams : reader[id][s] \in {"eof", "failed"} /\ Queued(id, s) = 0

C6_TickReapsExited ==
    [][poll_process_output
          => \A i \in 1..Len(processes) :
                (processes[i].status = "Running" /\ os_state[processes[i].id] = "exited")
                    => /\ processes'[i].status \in Terminal
                       /\ processes[i].id \notin Range(process_children')]_vars

\* A record that try_wait completed on a tick: no Exited message was ever sent
\* for it.
C6_Witness ==
    \E i \in 1..Len(processes) :
        /\ processes[i].status = "Completed"
        /\ ~exit_reported[processes[i].id]
        /\ processes[i].id \notin Range(process_children)

C8_NoOutputAfterKill ==
    [][\A i \in 1..Len(processes) :
          processes[i].id \in kill_sent
              => /\ processes'[i].output_lines = processes[i].output_lines
                 /\ processes'[i].error_lines = processes[i].error_lines]_vars

\* C9: draining a message whose id matches no record leaves the records and
\* the child handles as they were: at every position of the queue, if the
\* message there finds no record when its turn comes, applying it changes
\* nothing.
C9_UnknownIdDiscarded ==
    \A k \in 1..Len(chan) :
        LET st == DrainAll([procs |-> processes, children |-> process_children],
                           SubSeq(chan, 1, k - 1))
        IN  NoRecord(st.procs, chan[k].id) => ApplyOutput(st, chan[k]) = st

\* An out-of-band message has been drained while a record holds output and
\* a child handle is live.
C9_Witness ==
    /\ injected = 1
    /\ chan = <<>>
    /\ process_children # <<>>
    /\ \E i \in 1..Len(processes) : processes[i].output_lines # <<>>

\* C10: a spawn attempt that creates no child adds no record and no child
\* handle and sets last_error; a record is added only together with a child
\* that has just been started.
C10_FailedSpawnNoRecord ==
    [][/\ (next_process_id' # next_process_id /\ os_state' = os_state)
            => /\ processes' = processes
               /\ process_children' = process_children
               /\ last_error' = "Failed to spawn claude"
       /\ Len(processes') > Len(processes)
            => /\ os_state[next_process_id] = "none"
               /\ os_state'[next_process_id] = "running"
               /\ processes' = Append(processes, SpawnedProcess(next_process_id))
               /\ process_children' = Append(process_children, next_process_id)]_vars

\* A spawn failed after another had succeeded.
C10_Witness ==
    /\ last_error = "Failed to spawn claude"
    /\ Len(processes) = 1
    /\ next_process_id = 3

\* C11: the ids of the records are strictly increasing in the order the
\* records were created (so no two records share an id), and every id handed
\* out is below the counter, whatever spawns, failed spawns, kills and exits
\* have happened.
C11_IdsIncrease ==
    /\ \A i, j \in 1..Len(processes) : i < j => processes[i].id < processes[j].id
    /\ \A i \in 1..Len(processes) : processes[i].id < next_process_id

\* Two records, the first killed and the second reaped after its exit.
C11_Witness ==
    /\ Len(processes) = 2
    /\ processes[1].id \in kill_sent
    /\ processes[2].status = "Completed"
    /\ processes[1].id # processes[2].id

\* ---------------------------------------------------- claims: the classifier

\* The event has been classified.
Classified == change # Pending

\* The path of the event with "/" separators.
Normalized == Replace(path_str)

\* The directory part of a path (up to and with its last "/") and the file
\* name after it.
DirOf(text) ==
    LET slashes == {i \in 1..Len(text) : text[i] = "/"}
    IN  IF slashes = {} THEN <<>>
        ELSE SubSeq(text, 1, CHOOSE i \in slashes : \A j \in slashes : j <= i)

FileOf(text) == SubSeq(text, Len(DirOf(text)) + 1, Len(text))

\* A file named <something><ext> directly in a directory whose path ends in dir.
FileIn(text, dir, ext) ==
    /\ EndsWith(DirOf(text), dir)
    /\ EndsWith(FileOf(text), ext)
    /\ Len(FileOf(text)) > Len(ext)

\* The names a path segment can have.
Words(text) == Range(text) \ {"/"}

UnderGit(text) == Contains(text, <<"/", ".git", "/">>)

\* Every value classify_change can return: None or one FileChange.
Changes ==
    {None, GitChange, SessionIndex}
        \cup {SubagentTranscript(path) : path \in Paths}
        \cup {Transcript(path) : path \in Paths}
        \cup {TodoFile(path) : path \in Paths}
        \cup {PlanFile(path) : path \in Paths}
        \cup {f : f \in UNION {{TeamConfig(<<w>>), TeamInbox(<<w>>), TaskFile(<<w>>)} :
                                   w \in UNION {Words(path) : path \in Paths}}}
        \cup {f : f \in UNION {{TeamConfig(<<w, ".json">>), TaskFile(<<w, ".json">>)} :
                                   w \in UNION {Words(path) : path \in Paths}}}

\* C12: classify_change returns no change or exactly one FileChange for
\* every path; a path <prefix>/todos/<file>.json outside the git control
\* directory yields TodoFile of that path whatever the prefix is, and
\* <prefix>/node_modules/x.js yields no change.
C12_ClassifyTotal ==
    Classified =>
        /\ change \in Changes
        /\ (FileIn(Normalized, <<"/", "todos", "/">>, <<".json">>) /\ ~UnderGit(Normalized))
               => change = TodoFile(path_str)
        /\ EndsWith(Normalized, <<"/", "node_modules", "/", "x", ".js">>)
               => change = None

\* C13: a path under the git control directory (containing /.git/) yields
\* GitChange when it ends in /HEAD or /index or contains /refs/, and no
\* change otherwise, also when it matches a later rule.
C13_GitRuleFirst ==
    (Classified /\ UnderGit(Normalized)) =>
        change = IF \/ EndsWith(Normalized, <<"/", "HEAD">>)
                    \/ EndsWith(Normalized, <<"/", "index">>)
                    \/ Contains(Normalized, <<"/", "refs", "/">>)
                 THEN GitChange
                 ELSE None

\* A path under .git that also has the shape of a todo file has been
\* classified as no change.
C13_Witness ==
    /\ Classified
    /\ UnderGit(Normalized)
    /\ FileIn(Normalized, <<"/", "todos", "/">>, <<".json">>)
    /\ change = None

\* The session directory of the watched project, and of the other one.
InProject(text, project) == Contains(text, <<"/", "projects", "/">> \o project \o <<"/">>)

\* C14: in projects/<encoded-project>/ the session index file yields
\* SessionIndex, a .jsonl path with a /subagents/ segment yields
\* SubagentTranscript, and every other .jsonl path yields Transcript; a .jsonl
\* file of another project yields neither of the two.
C14_SessionDirectory ==
    Classified =>
        /\ EndsWith(Normalized, <<"/", "projects", "/">> \o encoded_project
                                    \o <<"/", "sessions-index", ".json">>)
               => change = SessionIndex
        /\ (InProject(Normalized, encoded_project) /\ EndsWith(Normalized, <<".json", "l">>))
               => change = IF Contains(Normalized, <<"/", "subagents", "/">>)
                           THEN SubagentTranscript(path_str)
                           ELSE Transcript(path_str)
        /\ (/\ InProject(Normalized, other_project)
            /\ ~InProject(Normalized, encoded_project)
            /\ EndsWith(Normalized, <<".json", "l">>))
               => change.kind \notin {"Transcript", "SubagentTranscript"}

\* The path shapes of the rules for teams, tasks, todos and plans.
TeamConfigShape(text) ==
    \E name \in Words(text) : EndsWith(text, <<"/", "teams", "/", name, "/", "config", ".json">>)

TeamInboxShape(text) ==
    \E name \in Words(text) : Contains(text, <<"/", "teams", "/", name, "/", "inboxes", "/">>)

TaskFileShape(text) ==
    \E name \in Words(text) : FileIn(text, <<"/", "tasks", "/", name, "/">>, <<".json">>)

\* C15: a TeamConfig, TeamInbox, TaskFile, TodoFile or PlanFile change is
\* emitted only for a path of the shape of its rule.  In particular
\* tasks/<file>.json, teams/config.json, teams/<name>/myconfig.json and
\* myplans/<file>.md yield no change.
C15_OnlyRuleShapes ==
    Classified =>
        /\ change.kind = "TeamConfig" => TeamConfigShape(Normalized)
        /\ change.kind = "TeamInbox" => TeamInboxShape(Normalized)
        /\ change.kind = "TaskFile" => TaskFileShape(Normalized)
        /\ change.kind = "TodoFile" => FileIn(Normalized, <<"/", "todos", "/">>, <<".json">>)
        /\ change.kind = "PlanFile" => FileIn(Normalized, <<"/", "plans", "/">>, <<".md">>)

\* C16: for <home>/teams/<name>/config.json, <home>/teams/<name>/inboxes/<file>
\* and <home>/tasks/<name>/<file>.json the change carries <name>, the
\* directory directly below the teams/ or tasks/ root, whatever <home> is;
\* a file config.json in an inbox directory is a team-config change.
C16_TeamNameCarried ==
    Classified => \A name \in Words(Normalized) :
        /\ EndsWith(Normalized, <<"/", ".claude", "/", "teams", "/", name, "/", "config", ".json">>)
               => change = TeamConfig(<<name>>)
        /\ Contains(Normalized, <<"/", ".claude", "/", "teams", "/", name, "/", "inboxes", "/">>)
               => change = IF EndsWith(Normalized, <<"config", ".json">>)
                           THEN TeamConfig(<<name>>)
                           ELSE TeamInbox(<<name>>)
        /\ FileIn(Normalized, <<"/", ".claude", "/", "tasks", "/", name, "/">>, <<".json">>)
               => change = TaskFile(<<name>>)

\* ------------------------------------------------------ claims: the watcher

\* The feature whose flag enables the watch on a directory.
FlagOf(dir) ==
    CASE dir = "project_dir" -> "sessions"
      [] dir \in {"teams_dir", "tasks_dir"} -> "teams"
      [] dir = "todos_dir" -> "todos"
      [] dir = "plans_dir" -> "plans"
      [] dir = "git_dir" -> "git"

\* The directories of enabled features that exist at startup.
Wanted == {dir \in Dirs : tabs_config[FlagOf(dir)] /\ dir_exists[dir]}

\* C17: start_watcher asks for a watch on a directory exactly when the
\* feature's flag is true and the directory exists at startup; the directory
\* of a disabled feature and a missing directory are never watched.
C17_WatchOnlyEnabledExisting ==
    /\ watched \subseteq Wanted
    /\ watch_calls \subseteq Wanted
    /\ watcher = "running" => watch_calls = Wanted

\* A watcher runs with one feature disabled though its directory exists and
\* one directory missing though its feature is enabled.
C17_Witness ==
    /\ watcher = "running"
    /\ ~tabs_config["todos"] /\ dir_exists["todos_dir"]
    /\ tabs_config["plans"] /\ ~dir_exists["plans_dir"]
    /\ watched = {"project_dir", "teams_dir", "tasks_dir", "git_dir"}

\* C18: a registration that fails on one directory does not abort
\* start_watcher: when the debouncer could be created, start_watcher returns
\* a running watcher, and every other enabled, existing directory is watched.
C18_WatchFailureSkipped ==
    (watcher # "none" /\ ~debouncer_err) =>
        /\ watcher = "running"
        /\ watched = Wanted \ watch_err

\* The registration of the teams directory failed; directories tested
\* before and after it are watched.
C18_Witness ==
    /\ watcher = "running"
    /\ "teams_dir" \in Wanted \cap watch_err
    /\ {"project_dir", "tasks_dir", "git_dir"} \subseteq watched
    /\ "teams_dir" \notin watched

\* The FileChanged messages sent for a path.
Sent(path) ==
    Cardinality({i \in 1..Len(event_tx) :
                    event_tx[i] = classify_change(path, encoded_project, path)})

\* C19: when all raw events on a path fell inside one debounce window and
\* the debouncer has let go of the path, exactly one FileChanged message was
\* sent for it if a rule matches the path and none otherwise; and the
\* messages sent are those of the debounced events of kind Any, in order:
\* nothing is sent for another kind or for an error.
C19_BurstYieldsOneChange ==
    /\ \A path \in EventPaths :
          (/\ raw[path].count >= 1
           /\ raw[path].last - raw[path].first < DEBOUNCE_MS
           /\ pending[path] = NoEntry)
              => Sent(path) =
                     IF classify_change(path, encoded_project, path) = None THEN 0 ELSE 1
    /\ LET any == SelectSeq(emitted,
                            LAMBDA e : /\ e.kind = "Any"
                                       /\ classify_change(e.path, encoded_project, e.path) # None)
       IN  event_tx = [i \in 1..Len(any) |->
                          classify_change(any[i].path, encoded_project, any[i].path)]

\* A burst of MaxRaw raw events on the todo file, spread over a window, has
\* come out as one message, after the debouncer had emitted AnyContinuous for
\* the path and had reported an error.
C19_Witness ==
    \E path \in EventPaths :
        /\ raw[path].count = MaxRaw
        /\ raw[path].last > raw[path].first
        /\ raw[path].last - raw[path].first < DEBOUNCE_MS
        /\ pending[path] = NoEntry
        /\ event_tx = <<TodoFile(path)>>
        /\ \E i \in 1..Len(emitted) : emitted[i] = DebouncedEvent(path, "AnyContinuous")
        /\ \E i \in 1..Len(emitted) : emitted[i] = DebouncerErr

\* ---------------------------------------------------- claims: the transcript

\* The session whose transcript is open, its file and the tail budget.
Opened == loaded_session_id # "None"
OpenFile == files[loaded_session_id]
Budget == project_config_tail_lines

\* The place of an item in the file: its line, then its segment.
Before(a, b) == a.timestamp < b.timestamp \/ (a.timestamp = b.timestamp /\ a.text < b.text)

\* The items a line stands for: one per non-empty segment, none for a line
\* that does not parse or whose kind is ignored.
Yield(line) ==
    CASE line.kind \in {"user", "assistant"} /\ line.message.form = "Text" ->
            IF line.message.text = 0 THEN 0 ELSE 1
      [] line.kind \in {"user", "assistant"} /\ line.message.form = "Blocks" ->
            Cardinality({k \in 1..Len(line.message.blocks) :
                            \/ line.message.blocks[k].type \in {"tool_use", "tool_result"}
                            \/ /\ line.message.blocks[k].type = "text"
                               /\ line.message.blocks[k].text # 0})
      [] OTHER -> 0

\* The number of items lines from..to of a file stand for.
RECURSIVE YieldOf(_, _, _)
YieldOf(file, from, to) ==
    IF from > to THEN 0 ELSE Yield(file[from]) + YieldOf(file, from + 1, to)

\* C20 as claimed: opening with tail budget N a file of M lines yields
\* min(M, N) items, one of each of the last min(M, N) lines in file order,
\* and never more than N.
C20_TailBounding ==
    Opened =>
        LET m == Len(OpenFile)
            k == Min(m, Budget)
        IN  /\ Len(transcript_items) = k
            /\ \A i \in 1..k : transcript_items[i].timestamp = m - k + i
            /\ Len(transcript_items) <= Budget

\* C20 as amended: the items of the opened transcript are the last items of
\* the file, in file order and with none left out in between; when every
\* line of the file stands for exactly one item they are min(M, N) items,
\* one of each of the last min(M, N) lines, and so never more than N.
C20_TailOfFile ==
    Opened =>
        LET m == Len(OpenFile)
            k == Min(m, Budget)
            n == Len(transcript_items)
        IN  /\ transcript_items = transcript_reader.items
            /\ \A i, j \in 1..n : i < j => Before(transcript_items[i], transcript_items[j])
            /\ \A i \in 1..n :
                  /\ transcript_items[i].timestamp \in 1..m
                  /\ Yield(OpenFile[transcript_items[i].timestamp]) >= 1
            /\ n > 0 => n = YieldOf(OpenFile, transcript_items[1].timestamp + 1, m)
                            + Cardinality({i \in 1..n : transcript_items[i].timestamp
                                                           = transcript_items[1].timestamp})
            /\ (\A l \in 1..m : Yield(OpenFile[l]) = 1)
                  => /\ n = k
                     /\ \A i \in 1..k : transcript_items[i].timestamp = m - k + i

\* A file longer than the budget, each line standing for one item, has been
\* opened: the items are those of its last Budget lines.
C20_Witness ==
    /\ Opened
    /\ Len(OpenFile) > Budget
    /\ Budget >= 2
    /\ \A l \in 1..Len(OpenFile) : Yield(OpenFile[l]) = 1
    /\ Len(transcript_items) = Budget
    /\ transcript_items[1].timestamp = Len(OpenFile) - Budget + 1

\* ------------------------------------------------------------ polls
\* C21: a poll of an open transcript whose file can be read and has not
\* changed since it was last read (by the open or by a poll) returns "no
\* new data" and leaves the reader's items, its recorded byte length and
\* the displayed transcript_items as they were; so do two such polls in a
\* row.
C21_PollIdempotent ==
    [][(/\ refresh_transcript
        /\ Opened
        /\ OpenFile # Missing
        /\ unchanged_reads >= 1)
          => /\ read_result' = "Ok(false)"
             /\ transcript_reader'.items = transcript_reader.items
             /\ transcript_reader'.last_len = transcript_reader.last_len
             /\ transcript_items' = transcript_items]_vars

\* A transcript with items was opened and then polled twice with no change
\* to its file: the second poll, like the first, returned "no new data".
C21_Witness ==
    /\ Opened
    /\ OpenFile # Missing
    /\ unchanged_reads = MaxReads
    /\ read_result = "Ok(false)"
    /\ transcript_items # <<>>
    /\ transcript_items = transcript_reader.items

\* The lines of the open file that are whole and begin at or after the
\* recorded length, and the case of whole, well-formed lines appended to a
\* file that was read up to the end of a line.
ReadLines == transcript_reader.last_len \div LineBytes
Appended == (ReadLines + 1)..Len(OpenFile)
WholeLinesAppended ==
    /\ Opened
    /\ OpenFile # Missing
    /\ Flushed(OpenFile)
    /\ transcript_reader.last_len = LineBytes * ReadLines
    /\ Len(OpenFile) > ReadLines
    /\ \A l \in Appended : OpenFile[l] # Unparseable

\* The items of a sequence from place from on.
From(seq, from) == SubSeq(seq, from, Len(seq))

\* C22 as claimed: a poll after K well-formed lines were appended yields
\* exactly K new items, after the items already held.
C22_AppendYieldsK ==
    [][(refresh_transcript /\ WholeLinesAppended)
          => /\ Len(transcript_reader'.items)
                    = Len(transcript_reader.items) + Cardinality(Appended)
             /\ SubSeq(transcript_reader'.items, 1, Len(transcript_reader.items))
                    = transcript_reader.items]_vars

\* C22 as amended: a poll of a file that is not shorter than the recorded
\* length keeps the items already held as a prefix; what it adds comes
\* from lines beyond the recorded length only, in file order; after whole
\* well-formed lines were appended the poll adds every item those lines
\* stand for and shows them, which is K items when each of the K lines
\* stands for exactly one.
C22_AppendOnly ==
    [][(/\ refresh_transcript
        /\ Opened
        /\ OpenFile # Missing
        /\ FileLen(OpenFile) >= transcript_reader.last_len)
          => LET old == transcript_reader.items
                 new == From(transcript_reader'.items, Len(old) + 1)
             IN  /\ Len(transcript_reader'.items) >= Len(old)
                 /\ SubSeq(transcript_reader'.items, 1, Len(old)) = old
                 /\ \A i \in 1..Len(new) :
                        /\ new[i].timestamp \in Appended
                        /\ new[i].timestamp * LineBytes > transcript_reader.last_len
                 /\ \A i, j \in 1..Len(new) : i < j => Before(new[i], new[j])
                 /\ WholeLinesAppended =>
                        /\ Len(new) = YieldOf(OpenFile, ReadLines + 1, Len(OpenFile))
                        /\ (\A l \in Appended : Yield(OpenFile[l]) = 1)
                               => /\ Len(new) = Cardinality(Appended)
                                  /\ \A i \in 1..Len(new) :
                                         new[i].timestamp = ReadLines + i
                        /\ Len(new) > 0 => transcript_items' = transcript_reader'.items]_vars

\* Polls have added the items of appended lines after the items the open
\* loaded: three items, one of each line, while no open loads more than two.
C22_Witness ==
    /\ Opened
    /\ OpenFile # Missing
    /\ read_result = "Ok(true)"
    /\ Len(OpenFile) = MaxPollLines
    /\ \A l \in 1..Len(OpenFile) : Yield(OpenFile[l]) = 1
    /\ Len(transcript_items) = MaxPollLines
    /\ \A i \in 1..Len(transcript_items) : transcript_items[i].timestamp = i
    /\ Budget < MaxPollLines

\* C23: a poll that finds the file shorter than the recorded length leaves
\* the reader as a fresh open of the file would, with the file's length
\* recorded, returns no error and sets none; any other poll leaves the
\* recorded length at least what it was.
C23_TruncationReload ==
    [][(refresh_transcript /\ Opened /\ OpenFile # Missing)
          => IF FileLen(OpenFile) < transcript_reader.last_len
             THEN /\ transcript_reader' =
                        load_initial(with_tail_lines(project_config_tail_lines),
                                     OpenFile, tail_unit)
                  /\ transcript_reader'.last_len = FileLen(OpenFile)
                  /\ transcript_reader'.last_len >= 0
                  /\ read_result' # "Err"
                  /\ last_error' = last_error
             ELSE transcript_reader'.last_len >= transcript_reader.last_len]_vars

\* A file of two lines, one item each, has been reloaded with a budget of
\* one line after it was cut: a poll returned new data and the reader holds
\* the item of the second line alone, which no poll of a growing file
\* leaves behind.
C23_Witness ==
    /\ Opened
    /\ OpenFile # Missing
    /\ Len(OpenFile) = 2
    /\ \A l \in 1..Len(OpenFile) : Yield(OpenFile[l]) = 1
    /\ Budget = 1
    /\ read_result = "Ok(true)"
    /\ Len(transcript_reader.items) = 1
    /\ transcript_reader.items[1].timestamp = 2
    /\ transcript_reader.last_len = FileLen(OpenFile)
    /\ transcript_items = transcript_reader.items

\* The session load_selected_transcript opens and its file.
Selected == sessions[Min(session_list_index, Len(sessions) - 1) + 1]
SelectedFile == files[Selected]

\* The items of seq that come from line l.
OfLine(seq, l) == Cardinality({i \in 1..Len(seq) : seq[i].timestamp = l})

\* Line l of the file does not parse.
Fails(file, l) == file[l] \in {Unparseable, Fragment}

\* C24: an open or a poll of a file that can be read returns success
\* whatever lines fail to parse, and sets no error; the items it yields are
\* in file order, none comes from a line that fails to parse, and every
\* line of the read (on an open: after the line of the first item loaded;
\* on a poll: whole and beyond the recorded length) has all its items in.
C24_BadLineSkipped ==
    [][/\ (/\ load_selected_transcript(<<>>)
            /\ sessions # <<>>
            /\ ~Opened
            /\ SelectedFile # Missing)
          => LET got == transcript_reader'.items
                 m == Len(SelectedFile)
             IN  /\ loaded_session_id' = Selected
                 /\ last_error' = last_error
                 /\ transcript_items' = got
                 /\ \A i, j \in 1..Len(got) : i < j => Before(got[i], got[j])
                 /\ \A l \in 1..m : Fails(SelectedFile, l) => OfLine(got, l) = 0
                 /\ Len(got) > 0 =>
                        \A l \in (got[1].timestamp + 1)..m :
                            OfLine(got, l) = Yield(SelectedFile[l])
       /\ (/\ refresh_transcript
            /\ Opened
            /\ OpenFile # Missing
            /\ FileLen(OpenFile) >= transcript_reader.last_len)
          => LET new == From(transcript_reader'.items,
                             Len(transcript_reader.items) + 1)
             IN  /\ read_result' \in {"Ok(true)", "Ok(false)"}
                 /\ last_error' = last_error
                 /\ transcript_items' = transcript_reader'.items
                 /\ \A i, j \in 1..Len(new) : i < j => Before(new[i], new[j])
                 /\ \A l \in 1..Len(OpenFile) :
                        Fails(OpenFile, l) => OfLine(new, l) = 0
                 /\ \A l \in FirstWhole(transcript_reader.last_len)..Len(OpenFile) :
                        OfLine(new, l) = Yield(OpenFile[l])]_vars

\* A read has skipped a line that does not parse and kept the items of the
\* lines around it: the file is a good line, a bad line and a good line,
\* and the items are those of the first and of the third.
C24_Witness ==
    /\ Opened
    /\ OpenFile # Missing
    /\ Len(OpenFile) = 3
    /\ Yield(OpenFile[1]) = 1
    /\ OpenFile[2] = Unparseable
    /\ Yield(OpenFile[3]) = 1
    /\ read_result = "Ok(true)"
    /\ Len(transcript_items) = 2
    /\ transcript_items[1].timestamp = 1
    /\ transcript_items[2].timestamp = 3
    /\ last_error = "None"

\* ------------------------------------------------------ file changes
\* What handle_file_change reloads for each kind of change: the state of
\* the kind's own list or transcript.
Kinds == {c.kind : c \in FileChanges}
StateOf(kind) ==
    CASE kind = "SessionIndex" -> <<sessions>>
      [] kind = "Transcript" ->
            <<loaded_session_id, transcript_reader, transcript_items,
              transcript_scroll, read_result, unchanged_reads>>
      [] kind = "SubagentTranscript" ->
            <<subagents, subagent_index, subagent_reader, subagent_transcript,
              viewing_subagent>>
      [] kind = "TeamConfig" -> <<teams>>
      [] kind = "TeamInbox" -> <<inbox_messages>>
      [] kind = "TaskFile" -> <<tasks>>
      [] kind = "TodoFile" -> <<todo_files>>
      [] kind = "GitChange" -> <<git_status>>
      [] kind = "PlanFile" -> <<plan_files>>

\* A step that handles file_change.
Handles(file_change) ==
    \E found \in IF file_change = SessionIndex THEN {<<>>, <<"a1">>} ELSE {<<>>},
       diff_fails \in IF file_change = GitChange THEN BOOLEAN ELSE {FALSE} :
        handle_file_change(file_change, found, diff_fails)

\* The kinds whose state a change of the kind may alter: its own; with the
\* session list, the transcript and the subagents of the session that
\* load_sessions opens; with the teams, the tasks of the selected team.
MayAlter(kind) ==
    CASE kind = "SessionIndex" -> {"SessionIndex", "Transcript", "SubagentTranscript"}
      [] kind = "TeamConfig" -> {"TeamConfig", "TaskFile"}
      [] OTHER -> {kind}

\* C28 as claimed: handling a change alters the state of the change's own
\* kind only.
C28_OwnRefreshOnly ==
    [][\A file_change \in FileChanges :
          Handles(file_change) =>
              \A kind \in Kinds \ {file_change.kind} :
                  StateOf(kind)' = StateOf(kind)]_vars

\* C28 as amended: handling a change reloads the list of its kind from
\* disk, or polls its transcript, and alters nothing outside MayAlter;
\* the agent statuses are recomputed by the three team changes only; a
\* SessionIndex change opens a transcript only when none is loaded or, in
\* follow mode at the top of the list, another session has become the
\* newest.
C28_RefreshOfKind ==
    [][\A file_change \in FileChanges :
          Handles(file_change) =>
              LET k == file_change.kind
              IN  /\ \A kind \in Kinds \ MayAlter(k) : StateOf(kind)' = StateOf(kind)
                  /\ k \notin {"TeamConfig", "TeamInbox", "TaskFile"}
                        => agent_statuses' = agent_statuses
                  /\ (k = "SessionIndex" /\ index # IndexErr) => sessions' = index
                  /\ (/\ k = "SessionIndex"
                      /\ loaded_session_id # "None"
                      /\ ~(/\ index # IndexErr
                            /\ index # <<>>
                            /\ follow_mode
                            /\ session_list_index = 0
                            /\ index[1] # loaded_session_id))
                        => /\ StateOf("Transcript")' = StateOf("Transcript")
                           /\ StateOf("SubagentTranscript")'
                                  = StateOf("SubagentTranscript")
                  /\ (k = "Transcript" /\ Opened) =>
                        /\ unchanged_reads' = Min(unchanged_reads + 1, MaxReads)
                        /\ transcript_items' = transcript_reader'.items
                  /\ (k = "SubagentTranscript" /\ viewing_subagent
                         /\ subagent_file # Missing)
                        => subagent_transcript' = subagent_reader'.items
                  /\ (k = "TeamConfig" /\ disk["teams"] # LoadErr) =>
                        /\ teams' = disk["teams"]
                        /\ tasks' = IF disk["teams"] = 0 THEN 0
                                    ELSE IF disk["tasks"] = LoadErr THEN tasks
                                    ELSE disk["tasks"]
                  /\ (k = "TeamInbox" /\ teams # 0 /\ disk["inbox"] # LoadErr)
                        => inbox_messages' = disk["inbox"]
                  /\ (k = "TaskFile" /\ teams # 0 /\ disk["tasks"] # LoadErr)
                        => tasks' = disk["tasks"]
                  /\ (k = "TodoFile" /\ disk["todos"] # LoadErr)
                        => todo_files' = disk["todos"]
                  /\ (k = "GitChange" /\ disk["git"] # LoadErr)
                        => git_status' = disk["git"]
                  /\ (k = "PlanFile" /\ disk["plans"] # LoadErr)
                        => plan_files' = disk["plans"]]_vars

\* A TeamConfig change has been handled and no other: the teams and their
\* tasks are those on disk while the todos, the plans, the git status and
\* the sessions, all different on disk, are as App::new left them.
C28_Witness ==
    /\ teams = 1
    /\ tasks = 1
    /\ agent_statuses # <<>>
    /\ inbox_messages = 0
    /\ todo_files = 0 /\ disk["todos"] = 1
    /\ plan_files = 0 /\ disk["plans"] = 1
    /\ git_status = 0 /\ disk["git"] = 1
    /\ sessions = <<>> /\ index = <<"s1">>
    /\ last_error = "None"

\* ---------------------------------------------------------------- run_app
\* The step of the loop that ends an iteration: the tick test when no tick is
\* due, the end of the tick when one is.
EndsIteration == \/ pc = "tick" /\ pc' # "procs"
                 \/ pc = "procs"

\* C25: on an idle iteration or tick (no key press and no message applied
\* since the last draw, no tracker polled, no process record or child handle
\* changed) the dirty flag stays false, so that the next iteration does not
\* redraw.
C25_IdleStaysClean ==
    [][(/\ EndsIteration
        /\ ~dirty
        /\ ~mutated
        /\ polled' = {}
        /\ processes' = processes
        /\ process_children' = process_children)
       => ~dirty']_vars

\* C26: every key press and every message the loop applies sets the dirty
\* flag (a mutation not drawn yet has the flag set); the start of an
\* iteration redraws exactly when the flag is set and clears it; nothing else
\* draws, and nothing clears the flag without a redraw.
C26_DirtyGatesRedraw ==
    [][/\ mutated' => dirty'
       /\ (pc = "draw" /\ pc' = "input") => (drew' = dirty /\ ~dirty')
       /\ (dirty /\ ~dirty') => (pc = "draw" /\ drew')
       /\ pc # "draw" => drew' = drew]_vars

\* C26: a message was applied and the iteration after it has redrawn.
C26_Witness ==
    /\ pc = "input"
    /\ received > 0
    /\ drew
    /\ ~dirty
    /\ ~mutated

\* C27: the loop takes the messages off the channel in the order they were
\* sent, none skipped, and only in its drain; when the drain ends every
\* message that was queued when it began has been consumed; on an empty queue
\* the drain ends at once, with no wait; and the wait for input ends no later
\* than the next tick is due (or at once when it is due already).
C27_DrainsQueueWithoutBlocking ==
    /\ [](pc = "drain" /\ event_rx = <<>> => ENABLED LoopRecv)
    /\ [][/\ received' # received => (pc = "drain" /\ received' = received + 1)
          /\ (pc = "drain" /\ pc' = "tick") => (received >= queued /\ event_rx = <<>>)
          /\ (pc = "drain" /\ event_rx = <<>> /\ pc' # pc) => time' = time
          /\ pc = "input" /\ pc' = "drain" =>
                /\ time' - time = waited'
                /\ time' <= IF time > last_tick + tick_rate THEN time
                            ELSE last_tick + tick_rate]_vars

\* C27: two messages were queued when a drain began and that drain has
\* consumed both (the iteration had nothing to draw, so neither was applied
\* before it).
C27_Witness ==
    /\ pc = "tick"
    /\ queued = 2
    /\ received = 2
    /\ ~drew

\* The tick sends tracker t a request in this step.
TimerPoll(t) == pc = "tick" /\ pc' = "procs" /\ t \in polled'

\* C29: the timer-driven polls of one tracker are at least poll_interval
\* apart, whether the earlier one succeeded or failed, and the handling of a
\* received event (a file change among them) neither polls a tracker nor
\* moves the time of its last poll.
C29_PollsSpaced ==
    [][/\ \A t \in Trackers :
             TimerPoll(t) /\ last_attempt[t] # NoAttempt
                => time - last_attempt[t] >= poll_interval
       /\ pc = "drain" => UNCHANGED <<last_poll, last_attempt, polled>>]_vars

\* ------------------------------------ file changes and process events
\* The loop applies a FileChange in this step.
AppliesFileChange ==
    /\ pc = "drain"
    /\ received' # received
    /\ IF event_rx = <<>> THEN FALSE ELSE Head(event_rx).evt.name = "FileChanged"

\* The loop applies the process events in this step.
AppliesProcessEvents == pc = "procs"

\* What poll_process_output would make of the process records and the child
\* handles now, for each outcome of its try_wait calls.
PollOutcomes ==
    IF ~process_rx THEN {}
    ELSE LET d == DrainAll([procs |-> processes, children |-> process_children], chan)
         IN  {ReapExited(d, CollectExited(d.children, errs)) :
                 errs \in SUBSET Range(d.children)}

\* C30: applying a FileChange leaves the process records, the child handles,
\* the process channel and with them what the handling of process events will
\* do unchanged; applying the process events leaves the transcript state,
\* the file-backed lists and last_error, all that a FileChange reads or
\* writes, unchanged.  Either order of the two therefore ends in the same
\* state.
C30_FileAndProcessIndependent ==
    [][/\ AppliesFileChange =>
             /\ UNCHANGED <<processes, process_children, process_index,
                            process_rx, next_process_id, chan, osVars>>
             /\ PollOutcomes' = PollOutcomes
       /\ AppliesProcessEvents =>
             UNCHANGED <<sessionVars, featureVars, last_error>>]_vars

\* C30: a FileChange has reloaded the todos and the tick after it has
\* applied a line of process output.
C30_Witness ==
    /\ received > 0
    /\ todo_files = 1
    /\ processes # <<>>
    /\ pc \in {"draw", "done"}
    /\ IF processes = <<>> THEN FALSE
       ELSE processes[1].output_lines # <<>> \/ processes[1].error_lines # <<>>

\* ------------------------------------------ records and child handles
\* The ids of the records whose status is Running.
RunningIds == {processes[i].id : i \in {j \in 1..Len(processes) :
                                           processes[j].status = "Running"}}

\* C36: process_children holds an entry for an id exactly when the record
\* with that id is Running, and holds no id twice.
C36_ChildIffRunning ==
    /\ Range(process_children) = RunningIds
    /\ \A i, j \in 1..Len(process_children) :
          process_children[i] = process_children[j] => i = j

\* C36: one record has reached a terminal status and lost its child handle
\* while another is Running with its handle.
C36_Witness ==
    /\ Len(processes) = 2
    /\ \E i \in 1..Len(processes) : processes[i].status \in Terminal
    /\ RunningIds # {}
    /\ Range(process_children) = RunningIds

\* ------------------------------------------------ the tick's exit check
\* poll_process_output takes this step, its try_wait failing for the
\* children errs.
PollsWith(errs) ==
    /\ process_rx
    /\ poll_process_output
    /\ LET d == DrainAll([procs |-> processes, children |-> process_children], chan)
           r == ReapExited(d, CollectExited(d.children, errs))
       IN  /\ errs \subseteq Range(d.children)
           /\ processes' = r.procs
           /\ process_children' = r.children

\* The status of record i once the queued messages are applied.
StatusAfterDrain(i) ==
    DrainAll([procs |-> processes, children |-> process_children], chan).procs[i].status

\* C33: when the tick's exit check finds the child of a Running record
\* exited, the record becomes Completed if the exit status is success and
\* Failed if not; when the check itself fails the record becomes Failed; a
\* record whose child still runs stays Running; last_error is left alone
\* and the next poll can be taken.
C33_ExitCheckOutcome ==
    [][\A errs \in SUBSET Ids :
          PollsWith(errs) =>
             /\ last_error' = last_error
             /\ \A i \in 1..Len(processes) :
                   LET id == processes[i].id
                   IN  (StatusAfterDrain(i) = "Running" /\ id \in Range(process_children)) =>
                          processes'[i].status =
                             IF id \in errs THEN "Failed"
                             ELSE IF os_state[id] = "exited"
                                  THEN (IF os_success[id] THEN "Completed" ELSE "Failed")
                                  ELSE "Running"]_vars

\* C33: a record is Failed although nobody killed its child, no Exited
\* message was sent for it and the child still runs: its exit check failed.
C33_Witness ==
    \E i \in 1..Len(processes) :
        /\ processes[i].status = "Failed"
        /\ processes[i].id \notin kill_sent
        /\ ~exit_reported[processes[i].id]
        /\ os_state[processes[i].id] = "running"

\* ------------------------------------------ the end of a reader thread
Ended == {"eof", "failed"}

\* C35: a reader thread ends at end-of-stream (the pipe is empty and the
\* child has exited) or at a read that fails, and never runs again; once the
\* receiving end of the channel is dropped, the next line a reader takes
\* from its pipe ends it and nothing more is sent; and once the child has
\* exited, each of its reader threads ends.
C35_ReadersTerminate ==
    /\ [][\A id \in Ids, s \in Streams :
             /\ reader[id][s] \in Ended => reader'[id][s] = reader[id][s]
             /\ (reader[id][s] = "running" /\ reader'[id][s] = "eof")
                   => (pipe[id][s] = <<>> /\ os_state[id] = "exited")
             /\ (reader[id][s] = "running" /\ reader'[id][s] = "failed")
                   => pipe[id][s] # <<>>
             /\ (pc = "done" /\ reader[id][s] = "running"
                    /\ Len(pipe'[id][s]) < Len(pipe[id][s]))
                   => (reader'[id][s] = "failed" /\ chan' = chan)]_vars
    /\ \A id \in SoloIds :
          (os_state[id] = "exited")
             ~> (\A s \in Streams : reader[id][s] \in Ended)

\* C35: the receiving end is dropped, the child has exited having written a
\* line, one reader thread ended at end-of-stream and the other at a line
\* it could not send or read.
C35_Witness ==
    \E id \in SoloIds :
        /\ pc = "done"
        /\ os_state[id] = "exited"
        /\ written[id]["Stdout"] > 0
        /\ reader[id]["Stdout"] = "failed"
        /\ reader[id]["Stderr"] = "eof"

\* ------------------------------------------------------ parsing one envelope
\* The item a segment of a user or assistant message gives.
ItemOfSegment(block, default_kind) ==
    CASE block.type = "text" -> TranscriptItem(0, default_kind, block.text)
      [] block.type = "tool_use" -> TranscriptItem(0, "ToolUse", block.text)
      [] block.type = "tool_result" -> TranscriptItem(0, "ToolResult", block.text)

\* The segments that give an item: a non-empty text, a tool invocation, a
\* tool result.
GivesItem(block) ==
    \/ block.type = "text" /\ block.text # 0
    \/ block.type \in {"tool_use", "tool_result"}

\* The segments of a message, a plain string being one text segment.
SegmentsOf(message) ==
    CASE message.form = "None" -> <<>>
      [] message.form = "Text" -> <<ContentBlock("text", message.text)>>
      [] message.form = "Blocks" -> message.blocks

\* C32: a user or assistant envelope gives, in segment order, one item for
\* each non-empty text segment (of the envelope's kind), each tool invocation
\* (ToolUse) and each tool result (ToolResult), and none for an empty text or
\* unknown segment; a system or progress envelope gives at most one item, of
\* its kind; any other envelope, and a user or assistant envelope without a
\* message, gives no item.
C32_ItemPerSegment ==
    parsed # NotParsed =>
        LET kept == SelectSeq(SegmentsOf(parse_line.message), GivesItem)
            default_kind == IF parse_line.kind = "user" THEN "User" ELSE "Assistant"
        IN  CASE parse_line.kind \in {"user", "assistant"} ->
                   /\ Len(parsed) = Len(kept)
                   /\ \A i \in 1..Len(kept) :
                          parsed[i] = ItemOfSegment(kept[i], default_kind)
                   /\ parse_line.message = NoMessage => parsed = <<>>
              [] parse_line.kind = "system" ->
                   /\ Len(parsed) <= 1
                   /\ \A i \in 1..Len(parsed) : parsed[i].kind = "System"
              [] parse_line.kind = "progress" ->
                   /\ Len(parsed) <= 1
                   /\ \A i \in 1..Len(parsed) : parsed[i].kind = "Progress"
              [] OTHER -> parsed = <<>>

\* C32 witness: an assistant envelope of a text followed by a tool
\* invocation was parsed into an Assistant item followed by a ToolUse item.
C32_Witness ==
    /\ parsed # NotParsed
    /\ parse_line.kind = "assistant"
    /\ parse_line.message.form = "Blocks"
    /\ Len(parse_line.message.blocks) = 2
    /\ parse_line.message.blocks[1].type = "text"
    /\ parse_line.message.blocks[1].text # 0
    /\ parse_line.message.blocks[2].type = "tool_use"
    /\ Len(parsed) = 2
    /\ parsed[1].kind = "Assistant"
    /\ parsed[2].kind = "ToolUse"

\* ------------------------------------------------- separators of a path
\* Two texts that differ at most in which separator stands where.
SameButSeparators(a, b) ==
    /\ Len(a) = Len(b)
    /\ \A i \in 1..Len(a) : a[i] = b[i] \/ {a[i], b[i]} = {"/", "\\"}

\* The variants of FileChange that carry the path of the event.
PathVariants == {"Transcript", "SubagentTranscript", "TodoFile", "PlanFile"}

\* C39: a path and the same path written with the other separator are
\* classified as the same variant with the same team name, and the path a
\* Transcript, SubagentTranscript, TodoFile or PlanFile carries is the
\* path of the event as it was written.
C39_SeparatorsNormalised ==
    change # Pending =>
        /\ \A other \in Paths :
               SameButSeparators(other, path_str) =>
                   LET c == classify_change(other, encoded_project, other)
                   IN  /\ c.kind = change.kind
                       /\ c.team = change.team
        /\ change.kind \in PathVariants => change.path = path_str

\* C39 witness: a path written with backslashes was classified as a team
\* change, and another as a variant that carries the path.
C39_Witness ==
    /\ change # Pending
    /\ Contains(path_str, <<"\\">>)
    /\ ~Contains(path_str, <<"/">>)
    /\ change.kind = "Transcript"
    /\ change.path = path_str
    /\ \E other \in Paths :
           /\ Contains(other, <<"\\">>)
           /\ classify_change(other, encoded_project, other).kind = "TeamConfig"

\* ------------------------------------------------- browsing the sessions
\* The items come from the file of session id.
ItemsOf(items, id) ==
    \A i \in 1..Len(items) :
        items[i].kind = (IF id = "s1" THEN "User" ELSE "Assistant")

\* C37: after every load_selected_transcript and refresh_transcript call,
\* a failed load included, the displayed items are the items the reader
\* holds and both come from the session loaded_session_id names; items are
\* displayed only while a session is loaded.
C37_DisplayIsReaders ==
    /\ transcript_items = transcript_reader.items
    /\ transcript_items # <<>> =>
           /\ loaded_session_id # "None"
           /\ ItemsOf(transcript_items, loaded_session_id)
           /\ ItemsOf(transcript_reader.items, loaded_session_id)

\* A SessionIndex change is handled.
SessionIndexChange ==
    \E found \in Founds :
        /\ handle_file_change(SessionIndex, found, FALSE)
        /\ ChangeFrame
        /\ UNCHANGED loopVars

\* C38: a SessionIndex change that loads a transcript loads that of the
\* newest session, and does so only when nothing is loaded yet or when
\* follow mode is on and the selection is at index 0; with a transcript
\* loaded and follow mode off or another row selected, it changes neither
\* loaded_session_id nor the transcript items.
C38_SwitchesToNewest ==
    [][SessionIndexChange =>
          LET nothing == loaded_session_id = "None"
              following == follow_mode /\ session_list_index = 0
          IN  /\ loaded_session_id' \notin {loaded_session_id, "None"} =>
                     /\ loaded_session_id' = sessions'[1]
                     /\ nothing \/ (following /\ loaded_session_id # sessions'[1])
              /\ (~nothing /\ ~following) =>
                     UNCHANGED <<loaded_session_id, transcript_items>>]_vars

\* Enter is pressed on the row of a session that is not the loaded one.
SelectsAnother ==
    /\ sessions # <<>>
    /\ Selected # loaded_session_id
    /\ \E found \in Founds : select_item(found) /\ BrowseFrame

\* load_selected_transcript, called with the selected session loaded,
\* changes something.
ReloadsLoaded ==
    /\ sessions # <<>>
    /\ Selected = loaded_session_id
    /\ \E found \in Founds : load_selected_transcript(found) /\ BrowseFrame
    /\ ~UNCHANGED <<sessionVars, last_error>>

\* C34: selecting another session puts a fresh reader in place of the old
\* one: it holds the budget of the configuration and, the file being
\* readable, the tail of the new file's items only and the new file's length
\* (no items and length 0 otherwise); the subagent view is reset.
\* load_selected_transcript for the session already loaded changes nothing.
C34_FreshReaderOnSelect ==
    /\ [][SelectsAnother =>
             /\ transcript_reader'.tail_lines = project_config_tail_lines
             /\ IF SelectedFile # Missing
                THEN /\ transcript_reader'.last_len = FileLen(SelectedFile)
                     /\ transcript_reader'.items =
                            LastN(ParseLines(SelectedFile, 1, Len(SelectedFile)),
                                  project_config_tail_lines)
                     /\ ItemsOf(transcript_reader'.items, Selected)
                     /\ loaded_session_id' = Selected
                     /\ transcript_items' = transcript_reader'.items
                ELSE /\ transcript_reader'.last_len = 0
                     /\ transcript_reader'.items = <<>>
             /\ subagents' \in Founds
             /\ subagent_index' = 0
             /\ subagent_transcript' = <<>>
             /\ subagent_reader' = with_tail_lines(project_config_tail_lines)
             /\ ~viewing_subagent']_vars
    /\ [](~ENABLED ReloadsLoaded)

\* C34 witness: s2, the second row, was selected while the file of s1 has
\* two lines: the transcript of s2 is loaded, the reader holds the items and
\* the length of s2's file only, and no subagent of the found one is in view.
C34_Witness ==
    /\ sessions = <<"s1", "s2">>
    /\ session_list_index = 1
    /\ loaded_session_id = "s2"
    /\ Len(files["s1"]) = 2
    /\ files["s2"] # Missing
    /\ transcript_reader.last_len = FileLen(files["s2"])
    /\ transcript_reader.items # <<>>
    /\ transcript_items = transcript_reader.items
    /\ ItemsOf(transcript_items, "s2")
    /\ ~viewing_subagent
    /\ subagents = <<"a1">>

\* ------------------------------------------------------ loads that fail
\* A step of the loop that handles file_change.
HandlesChange(file_change) ==
    /\ handle_file_change(file_change, <<>>, FALSE)
    /\ ChangeFrame
    /\ UNCHANGED loopVars

\* The refresh of the kind fails: its load, or the poll of the loaded
\* transcript, returns Err.
RefreshFails(kind) ==
    CASE kind = "SessionIndex" -> index = IndexErr
      [] kind = "Transcript" -> Opened /\ OpenFile = Missing
      [] kind = "TeamConfig" -> disk["teams"] = LoadErr
      [] kind = "TodoFile" -> disk["todos"] = LoadErr
      [] kind = "GitChange" -> disk["git"] = LoadErr
      [] kind = "PlanFile" -> disk["plans"] = LoadErr

\* The error the refresh of the kind reports.
ErrorOf(kind) ==
    CASE kind = "SessionIndex" -> "Sessions"
      [] kind = "Transcript" -> "Transcript update"
      [] kind = "TeamConfig" -> "Teams"
      [] kind = "TodoFile" -> "Todos"
      [] kind = "GitChange" -> "Git"
      [] kind = "PlanFile" -> "Plans"

\* What the tabs show and the readers hold.
LoadedData ==
    <<sessions, session_list_index, loaded_session_id, transcript_reader,
      transcript_items, transcript_scroll, follow_mode, subagents,
      subagent_index, subagent_transcript, subagent_reader, viewing_subagent,
      teams, tasks, inbox_messages, agent_statuses, todo_files, plan_files,
      git_status>>

\* C31: a refresh that fails leaves the loaded data of its feature, and of
\* every other, as it was and sets last_error to its error; the loop goes
\* on (it neither quits nor leaves its place), every change can still be
\* handled, and a refresh that does not fail loads what is on disk whatever
\* failed before.
C31_FailedRefreshKeepsData ==
    /\ [][\A file_change \in FailChanges :
             HandlesChange(file_change) =>
                 LET kind == file_change.kind
                 IN  /\ UNCHANGED <<should_quit, pc>>
                     /\ IF RefreshFails(kind)
                        THEN /\ UNCHANGED LoadedData
                             /\ last_error' = ErrorOf(kind)
                        ELSE /\ kind = "SessionIndex" =>
                                    sessions' = index /\ last_error' = "None"
                             /\ (kind = "Transcript" /\ Opened) =>
                                    /\ transcript_items' = transcript_reader'.items
                                    /\ transcript_reader'.last_len = FileLen(OpenFile)
                                    /\ last_error' = last_error
                             /\ kind = "TeamConfig" =>
                                    teams' = disk["teams"] /\ last_error' = "None"
                             /\ kind = "TodoFile" =>
                                    todo_files' = disk["todos"] /\ last_error' = "None"
                             /\ kind = "GitChange" => git_status' = disk["git"]
                             /\ kind = "PlanFile" =>
                                    plan_files' = disk["plans"] /\ last_error' = "None"
         ]_vars
    /\ [](\A file_change \in FailChanges : ENABLED HandlesChange(file_change))

\* C31 witness: the todos were loaded, their directory became unreadable and
\* the refresh of a TodoFile change failed: the todos are still shown next
\* to the error, with the transcript and the plans loaded as before.
C31_Witness ==
    /\ disk["todos"] = LoadErr
    /\ last_error = "Todos"
    /\ todo_files = 1
    /\ plan_files = 1
    /\ loaded_session_id = "s1"
    /\ transcript_items # <<>>
    /\ ~should_quit

====
